---- MODULE Spec2Model ----
(***************************************************************************)
(* Pitch deck analyzer: the command line entry point (main.py), the        *)
(* pipeline driver PitchDeckAnalyzer.analyze_pitch_deck (src/analyzer.py)  *)
(* and the stages it calls.  Text is a sequence of one-character strings;  *)
(* None is the token NoneVal.                                              *)
(***************************************************************************)
EXTENDS Integers, Sequences, FiniteSets, TLC

VARIABLES
    file_path,          \* args.pitch_deck
    file_exists,        \* what os.path.exists(file_path) answers
    api_key_arg,        \* args.api_key
    env_key,            \* os.getenv('OPENROUTER_API_KEY')
    output_path,        \* args.output
    pc,                 \* position of the run in main / analyze_pitch_deck
    extraction_result,  \* the extractor's return value
    images,             \* the PIL image objects of extraction_result['images']
    full_text,          \* local full_text of analyze_pitch_deck
    categorized_urls,   \* local categorized_urls
    all_urls,           \* local all_urls
    url_extractor_input,\* the text handed to extract_urls_from_text
    attempt,            \* loop variable of extract_urls_from_images
    sleeps,             \* every time.sleep(seconds) of the run, in order
    scrape_todo,        \* URLs scrape_multiple_urls has not visited yet
    scraped_data,       \* results of scrape_multiple_urls, in insertion order
    ai_input,           \* the arguments of OpenRouterClient.analyze_pitch_deck
    analysis_result,    \* return value of OpenRouterClient.analyze_pitch_deck
    result,             \* return value of PitchDeckAnalyzer.analyze_pitch_deck
    files,              \* every file the run opened for writing: <<path, content>>
    exit_code,          \* process exit code, -1 while the process runs
    log,                \* every stage entered and every remote request, in order
    call,               \* a function called on its own: its name and arguments
    returned            \* ... and the value it returned

vars == <<file_path, file_exists, api_key_arg, env_key, output_path, pc,
          extraction_result, images, full_text, url_extractor_input, categorized_urls,
          all_urls, attempt, sleeps, scrape_todo, scraped_data, ai_input,
          analysis_result, result, files, exit_code, log, call, returned>>

NoneVal == <<"None">>

---------------------------------------------------------------------------
(* Characters and str methods                                              *)

\* the pairs of str.lower() and str.upper() among the characters up to U+00FF:
\* the 26 ASCII letters, then U+00E0..U+00FE without the division sign and
\* U+00C0..U+00DE without the multiplication sign
LowerLetters ==
    <<"a","b","c","d","e","f","g","h","i","j","k","l","m","n","o","p","q","r","s","t","u","v",
      "w","x","y","z",
      "à","á","â","ã","ä","å","æ","ç","è","é","ê","ë","ì","í","î","ï","ð","ñ","ò","ó","ô","õ",
      "ö","ø","ù","ú","û","ü","ý","þ">>
UpperLetters ==
    <<"A","B","C","D","E","F","G","H","I","J","K","L","M","N","O","P","Q","R","S","T","U","V",
      "W","X","Y","Z",
      "À","Á","Â","Ã","Ä","Å","Æ","Ç","È","É","Ê","Ë","Ì","Í","Î","Ï","Ð","Ñ","Ò","Ó","Ô","Õ",
      "Ö","Ø","Ù","Ú","Û","Ü","Ý","Þ">>
Digits == {"0","1","2","3","4","5","6","7","8","9"}
Range(s) == {s[i] : i \in 1..Len(s)}
\* the characters str.upper() changes; the upper case of the last three is
\* not one character up to U+00FF
LowerSet == Range(LowerLetters) \cup {"µ", "ß", "ÿ"}
\* the characters str.lower() changes
UpperSet == Range(UpperLetters)
\* the class [a-zA-Z] of a pattern
Letters == {LowerLetters[i] : i \in 1..26} \cup {UpperLetters[i] : i \in 1..26}
\* the characters up to U+00FF for which str.isspace() holds (the same ones
\* match \s in a str pattern): space, \t, \n, \r, \x0b, \x0c, \x1c, \x1d, \x1e,
\* \x1f, \x85, \xa0
Whitespace == {" ", "\n", "\t", "\r", "", "\f", "", "", "", "", "", " "}

Min(a, b) == IF a <= b THEN a ELSE b
Max(a, b) == IF a >= b THEN a ELSE b

\* str.lower() / str.upper() of one character. The upper case of U+00DF is
\* the two-character string SS; the upper case of U+00B5 is U+039C and that
\* of U+00FF is U+0178, characters a string of this module cannot hold, so
\* each is written as its code point
LowerChar(c) ==
    IF c \in UpperSet
    THEN LowerLetters[CHOOSE i \in DOMAIN UpperLetters : UpperLetters[i] = c]
    ELSE c
UpperChar(c) ==
    IF c \in Range(LowerLetters)
    THEN UpperLetters[CHOOSE i \in DOMAIN LowerLetters : LowerLetters[i] = c]
    ELSE IF c = "ß" THEN "SS"
    ELSE IF c = "µ" THEN "U+039C"
    ELSE IF c = "ÿ" THEN "U+0178"
    ELSE c
Lower(s) == [i \in 1..Len(s) |-> LowerChar(s[i])]

\* s[:n]
Take(s, n) == SubSeq(s, 1, Min(n, Len(s)))
\* s[n:] with n counted from 0
Drop(s, n) == SubSeq(s, n + 1, Len(s))

\* s.startswith(p) and s.endswith(p)
StartsWith(s, p) == Len(p) <= Len(s) /\ SubSeq(s, 1, Len(p)) = p
EndsWith(s, p) == Len(p) <= Len(s) /\ SubSeq(s, Len(s) - Len(p) + 1, Len(s)) = p
\* p occurs in s at position i
OccursAt(s, p, i) ==
    i >= 1 /\ i + Len(p) - 1 <= Len(s) /\ \A k \in 1..Len(p) : s[i + k - 1] = p[k]
\* p in s
Contains(s, p) == \E i \in 1..(Len(s) + 1) : OccursAt(s, p, i)

\* s.strip()
Strip(s) ==
    IF \A i \in 1..Len(s) : s[i] \in Whitespace THEN <<>>
    ELSE SubSeq(s, CHOOSE i \in 1..Len(s) :
                       s[i] \notin Whitespace /\ \A j \in 1..(i - 1) : s[j] \in Whitespace,
                   CHOOSE i \in 1..Len(s) :
                       s[i] \notin Whitespace /\ \A j \in (i + 1)..Len(s) : s[j] \in Whitespace)
\* s.rstrip()
RStrip(s) ==
    IF \A i \in 1..Len(s) : s[i] \in Whitespace THEN <<>>
    ELSE SubSeq(s, 1, CHOOSE i \in 1..Len(s) :
                       s[i] \notin Whitespace /\ \A j \in (i + 1)..Len(s) : s[j] \in Whitespace)

\* s.rfind(c) + 1: the last position of character c in s, 0 when absent
RFind(s, c) ==
    LET at == {i \in 1..Len(s) : s[i] = c}
    IN  IF at = {} THEN 0 ELSE CHOOSE i \in at : \A j \in at : i >= j

\* s.replace(a, b) for single characters a, b
ReplaceChar(s, a, b) == [i \in 1..Len(s) |-> IF s[i] = a THEN b ELSE s[i]]

\* s.split(c)
RECURSIVE Split(_, _)
Split(s, c) ==
    IF \A i \in 1..Len(s) : s[i] # c THEN <<s>>
    ELSE LET i == CHOOSE i \in 1..Len(s) : s[i] = c /\ \A j \in 1..(i - 1) : s[j] # c
         IN  <<Take(s, i - 1)>> \o Split(Drop(s, i), c)

\* sep.join(parts)
RECURSIVE Join(_, _)
Join(parts, sep) ==
    IF parts = <<>> THEN <<>>
    ELSE IF Len(parts) = 1 THEN parts[1]
    ELSE parts[1] \o sep \o Join(Tail(parts), sep)

\* [x for x in s if keep(x)] for the index set keep
RECURSIVE FilterIdx(_, _, _)
FilterIdx(s, keep, i) ==
    IF i > Len(s) THEN <<>>
    ELSE (IF i \in keep THEN <<s[i]>> ELSE <<>>) \o FilterIdx(s, keep, i + 1)

---------------------------------------------------------------------------
(* os.path                                                                 *)

\* os.path.basename
Basename(p) == Drop(p, RFind(p, "/"))

\* os.path.splitext(p)[1]: the text from the last dot of the last path
\* component, unless only dots precede it in that component
SplitExt(p) ==
    LET sep == RFind(p, "/")
        dot == RFind(p, ".")
    IN  IF dot > sep /\ \E k \in (sep + 1)..(dot - 1) : p[k] # "."
        THEN Drop(p, dot - 1)
        ELSE <<>>
\* os.path.splitext(p)[0]
SplitRoot(p) == Take(p, Len(p) - Len(SplitExt(p)))

ExtPdf == <<".","p","d","f">>
ExtPpt == <<".","p","p","t">>
ExtPptx == <<".","p","p","t","x">>

\* a dispatch that compares the extension as it is written
FileExtensionAsWritten(p) == SplitExt(p)

\* analyze_pitch_deck's dispatch on file_extension
FileExtension(p) == Lower(SplitExt(p))
IsPdf(p) == FileExtension(p) = ExtPdf
IsPpt(p) == FileExtension(p) \in {ExtPpt, ExtPptx}

---------------------------------------------------------------------------
(* Credentials                                                             *)

\* truthiness of an optional string
Truthy(s) == s # NoneVal /\ s # <<>>
\* self.api_key = api_key or os.getenv('OPENROUTER_API_KEY')
ResolveKey(arg, env) == IF Truthy(arg) THEN arg ELSE env
\* a constructor that accepts a missing credential
ConstructorNeverRaises(arg, env) == FALSE
\* OpenRouterClient.__init__ / ImageURLExtractor.__init__ raise ValueError
ConstructorRaises(arg, env) == ~Truthy(ResolveKey(arg, env))

\* the text substituted for an image-only deck
ImageOnlyText ==
    <<"T","h","i","s"," ","p","i","t","c","h"," ","d","e","c","k"," ","c","o","n","t","a","i",
      "n","s"," ","o","n","l","y"," ","v","i","s","u","a","l"," ","c","o","n","t","e","n","t",
      " ","(","i","m","a","g","e","s","/","c","h","a","r","t","s","/","d","i","a","g","r","a",
      "m","s",")","."," ","P","l","e","a","s","e"," ","a","n","a","l","y","z","e"," ","t","h",
      "e"," ","v","i","s","u","a","l"," ","e","l","e","m","e","n","t","s"," ","t","o"," ","e",
      "x","t","r","a","c","t"," ","a","l","l"," ","r","e","l","e","v","a","n","t"," ","i","n",
      "f","o","r","m","a","t","i","o","n"," ","a","b","o","u","t"," ","t","h","e"," ","c","o",
      "m","p","a","n","y",","," ","b","u","s","i","n","e","s","s"," ","m","o","d","e","l",",",
      " ","m","a","r","k","e","t"," ","o","p","p","o","r","t","u","n","i","t","y",","," ","t",
      "e","a","m",","," ","f","i","n","a","n","c","i","a","l","s",","," ","a","n","d"," ","i",
      "n","v","e","s","t","m","e","n","t"," ","p","o","t","e","n","t","i","a","l",".">>

---------------------------------------------------------------------------
(* URLExtractor (src/utils/url_extractor.py)                               *)

\* [$-_]: the characters from "$" to "_" that are neither letters nor digits
DollarToUnderscore ==
    {"$","%","&","'","(",")","*","+",",","-",".","/",":",";","<","=",">","?","@","[","\\",
     "]","^","_"}
\* one character of the repeated group of url_pattern
UrlChars == Letters \cup Digits \cup DollarToUnderscore \cup {"!"}
\* [a-zA-Z0-9-]
DomainChars == Letters \cup Digits \cup {"-"}

\* the first position from i on whose character is not in class (Len + 1 at the end)
RECURSIVE RunEnd(_, _, _)
RunEnd(text, i, class) ==
    IF i > Len(text) \/ text[i] \notin class THEN i ELSE RunEnd(text, i + 1, class)

NoMatch == <<0, 0>>

\* url_pattern matched at position i: <<first, last>> of the match, or NoMatch
UrlMatchAt(text, i) ==
    IF ~OccursAt(text, <<"h","t","t","p">>, i) THEN NoMatch
    ELSE LET k == IF i + 4 <= Len(text) /\ text[i + 4] = "s" THEN i + 5 ELSE i + 4
             e == RunEnd(text, k + 3, UrlChars)
         IN  IF OccursAt(text, <<":","/","/">>, k) /\ e > k + 3 THEN <<i, e - 1>> ELSE NoMatch

\* the alternation com|org|net|io|co|ai|tech|app, in the pattern's order
Tlds == << <<"c","o","m">>, <<"o","r","g">>, <<"n","e","t">>, <<"i","o">>,
          <<"c","o">>, <<"a","i">>, <<"t","e","c","h">>, <<"a","p","p">> >>

\* ([a-zA-Z0-9-]+\.(?:com|...)) matched with the group starting at g: the last
\* position of the match, 0 when there is none (low is the text in lower case)
WebsiteGroupEnd(text, low, g) ==
    LET r == RunEnd(text, g, DomainChars)
        hit == {n \in 1..Len(Tlds) : OccursAt(low, Tlds[n], r + 1)}
    IN  IF r > g /\ r <= Len(text) /\ text[r] = "." /\ hit # {}
        THEN r + Len(Tlds[CHOOSE n \in hit : \A m \in hit : n <= m])
        ELSE 0

Www == <<"w","w","w",".">>

\* domain_patterns['website'] at position i: <<first of group 1, last>> or NoMatch
WebsiteMatchAt(text, low, i) ==
    LET withWww == IF OccursAt(low, Www, i) THEN WebsiteGroupEnd(text, low, i + 4) ELSE 0
        without == WebsiteGroupEnd(text, low, i)
    IN  IF withWww > 0 THEN <<i + 4, withWww>>
        ELSE IF without > 0 THEN <<i, without>>
        ELSE NoMatch

\* the platform patterns: literal heads, alternative path prefixes tried in
\* order, the class of the captured group, the prefix of the rebuilt URL
Platforms ==
    << [name |-> "linkedin", heads |-> << <<"l","i","n","k","e","d","i","n",".","c","o","m","/">> >>,
        mids |-> << <<"i","n","/">>, <<"c","o","m","p","a","n","y","/">> >>, class |-> DomainChars,
        url |-> <<"h","t","t","p","s",":","/","/","l","i","n","k","e","d","i","n",".","c","o","m","/","c","o",
  "m","p","a","n","y","/">>],
       [name |-> "twitter", heads |-> << <<"t","w","i","t","t","e","r",".","c","o","m","/">>, <<"x",".","c","o","m","/">> >>,
        mids |-> << <<>> >>, class |-> Letters \cup Digits \cup {"_"},
        url |-> <<"h","t","t","p","s",":","/","/","t","w","i","t","t","e","r",".","c","o","m","/">>],
       [name |-> "facebook", heads |-> << <<"f","a","c","e","b","o","o","k",".","c","o","m","/">> >>,
        mids |-> << <<>> >>, class |-> Letters \cup Digits \cup {"."},
        url |-> <<"h","t","t","p","s",":","/","/","f","a","c","e","b","o","o","k",".","c","o","m","/">>],
       [name |-> "instagram", heads |-> << <<"i","n","s","t","a","g","r","a","m",".","c","o","m","/">> >>,
        mids |-> << <<>> >>, class |-> Letters \cup Digits \cup {"_", "."},
        url |-> <<"h","t","t","p","s",":","/","/","i","n","s","t","a","g","r","a","m",".","c","o","m","/">>],
       [name |-> "github", heads |-> << <<"g","i","t","h","u","b",".","c","o","m","/">> >>,
        mids |-> << <<>> >>, class |-> DomainChars,
        url |-> <<"h","t","t","p","s",":","/","/","g","i","t","h","u","b",".","c","o","m","/">>],
       [name |-> "youtube", heads |-> << <<"y","o","u","t","u","b","e",".","c","o","m","/">> >>,
        mids |-> << <<"c","/">>, <<"c","h","a","n","n","e","l","/">>, <<"u","s","e","r","/">>, <<>> >>,
        class |-> Letters \cup Digits \cup {"_", "-"},
        url |-> <<"h","t","t","p","s",":","/","/","y","o","u","t","u","b","e",".","c","o","m","/","c","/">>],
       [name |-> "crunchbase", heads |-> << <<"c","r","u","n","c","h","b","a","s","e",".","c","o","m","/","o","r","g","a","n","i","z","a",
  "t","i","o","n","/">> >>,
        mids |-> << <<>> >>, class |-> DomainChars,
        url |-> <<"h","t","t","p","s",":","/","/","c","r","u","n","c","h","b","a","s","e",".","c","o","m","/",
  "o","r","g","a","n","i","z","a","t","i","o","n","/">>] >>

\* a platform pattern matched with its head starting at s
PlatformFrom(text, low, P, s) ==
    LET hs == {h \in 1..Len(P.heads) : OccursAt(low, P.heads[h], s)}
    IN  IF hs = {} THEN NoMatch
        ELSE LET m0 == s + Len(P.heads[CHOOSE h \in hs : TRUE])
                 ms == {m \in 1..Len(P.mids) :
                           /\ OccursAt(low, P.mids[m], m0)
                           /\ RunEnd(text, m0 + Len(P.mids[m]), P.class)
                                 > m0 + Len(P.mids[m])}
             IN  IF ms = {} THEN NoMatch
                 ELSE LET m == CHOOSE a \in ms : \A b \in ms : a <= b
                          g == m0 + Len(P.mids[m])
                      IN  <<g, RunEnd(text, g, P.class) - 1>>

\* a platform pattern at position i, the optional www. tried first
PlatformMatchAt(text, low, P, i) ==
    LET withWww == IF OccursAt(low, Www, i) THEN PlatformFrom(text, low, P, i + 4)
                   ELSE NoMatch
    IN  IF withWww # NoMatch THEN withWww ELSE PlatformFrom(text, low, P, i)

\* pattern.findall over a table of matches per start position: the captured
\* texts of the non-overlapping matches, scanning from position p
RECURSIVE FindAll(_, _, _)
FindAll(text, table, p) ==
    LET starts == {i \in p..Len(text) : table[i] # NoMatch}
    IN  IF starts = {} THEN <<>>
        ELSE LET i == CHOOSE a \in starts : \A b \in starts : a <= b
             IN  <<SubSeq(text, table[i][1], table[i][2])>>
                 \o FindAll(text, table, table[i][2] + 1)

UrlFindAll(text) == FindAll(text, [i \in 1..Len(text) |-> UrlMatchAt(text, i)], 1)
WebsiteFindAll(text) ==
    LET low == Lower(text)
    IN  FindAll(text, [i \in 1..Len(text) |-> WebsiteMatchAt(text, low, i)], 1)
PlatformFindAll(text, P) ==
    LET low == Lower(text)
    IN  FindAll(text, [i \in 1..Len(text) |-> PlatformMatchAt(text, low, P, i)], 1)

\* a prefix other than the one the scheme-qualified links of a deck carry
HttpsPrefix == <<"h","t","t","p","s",":","/","/">>
HttpPrefix == <<"h","t","t","p",":","/","/">>

\* set(urls + domain_mentions) of extract_urls_from_text
UrlSet(text) ==
    Range(UrlFindAll(text))
    \cup {HttpsPrefix \o m : m \in Range(WebsiteFindAll(text))}
    \cup UNION {{Platforms[n].url \o m : m \in Range(PlatformFindAll(text, Platforms[n]))} :
                  n \in 1..Len(Platforms)}

\* urlparse(url).netloc of a URL that starts with http:// or https://: tab,
\* CR and LF are taken out of the URL, and the netloc is the text from after
\* "//" to the first of / ? #
Netloc(url) ==
    LET kept == FilterIdx(url, {i \in 1..Len(url) : url[i] \notin {"\t", "\r", "\n"}}, 1)
        s == IF StartsWith(kept, HttpsPrefix) THEN 9 ELSE 8
        ends == {i \in s..Len(kept) : kept[i] \in {"/", "?", "#"}}
        e == IF ends = {} THEN Len(kept) + 1 ELSE CHOOSE i \in ends : \A k \in ends : i <= k
    IN  SubSeq(kept, s, e - 1)

\* URLExtractor._get_domain: urlparse raises ValueError when the netloc has
\* one bracket without the other, or brackets around a host that is neither
\* an IPv6 address nor an IPvFuture address (urllib.parse.urlsplit and
\* _check_bracketed_host, ipaddress.IPv6Address); the bare except then
\* returns the whole URL in lower case
GetDomain(url0) ==
    LET url == IF StartsWith(url0, HttpPrefix) \/ StartsWith(url0, HttpsPrefix)
               THEN url0 ELSE HttpsPrefix \o url0
        n == Netloc(url)
        HexDigits == Digits \cup {"a","b","c","d","e","f","A","B","C","D","E","F"}
        IsHextet(p) == Len(p) \in 1..4 /\ \A i \in 1..Len(p) : p[i] \in HexDigits
        IsOctet(p) ==
            /\ Len(p) \in 1..3 /\ \A i \in 1..Len(p) : p[i] \in Digits
            /\ p[1] = "0" => Len(p) = 1
            /\ Len(p) = 3 =>
                  \/ p[1] = "1"
                  \/ p[1] = "2" /\ p[2] \in {"0","1","2","3","4"}
                  \/ p[1] = "2" /\ p[2] = "5" /\ p[3] \in {"0","1","2","3","4","5"}
        IsIPv4(a) ==
            LET octets == Split(a, ".")
            IN  Len(octets) = 4 /\ \A i \in 1..4 : IsOctet(octets[i])
        IsIPv6(h) ==
            LET pct == {i \in 1..Len(h) : h[i] = "%"}
                addr == IF pct = {} THEN h
                        ELSE Take(h, (CHOOSE i \in pct : \A k \in pct : i <= k) - 1)
                raw == Split(addr, ":")
                v4 == "." \in Range(raw[Len(raw)])
                parts == IF v4 THEN SubSeq(raw, 1, Len(raw) - 1) \o << <<"0">>, <<"0">> >>
                         ELSE raw
                np == Len(parts)
                gaps == {i \in 2..(np - 1) : parts[i] = <<>>}
            IN  /\ pct # {} => Cardinality(pct) = 1 /\ h[Len(h)] # "%"
                /\ addr # <<>>
                /\ Len(raw) >= 3
                /\ v4 => IsIPv4(raw[Len(raw)])
                /\ np <= 9
                /\ Cardinality(gaps) <= 1
                /\ IF gaps # {}
                   THEN LET k == CHOOSE i \in gaps : TRUE
                            hi == IF parts[1] = <<>> THEN k - 2 ELSE k - 1
                            lo == IF parts[np] = <<>> THEN np - k - 1 ELSE np - k
                        IN  /\ parts[1] = <<>> => hi = 0
                            /\ parts[np] = <<>> => lo = 0
                            /\ 8 - (hi + lo) >= 1
                            /\ \A i \in 1..hi : IsHextet(parts[i])
                            /\ \A i \in (np - lo + 1)..np : IsHextet(parts[i])
                   ELSE np = 8 /\ \A i \in 1..np : IsHextet(parts[i])
        IsIPvFuture(h) ==
            LET e == RunEnd(h, 2, HexDigits)
            IN  /\ e > 2 /\ e < Len(h) /\ h[e] = "."
                /\ \A i \in (e + 1)..Len(h) : h[i] # "\n"
        open == {i \in 1..Len(n) : n[i] = "["}
        close == {i \in 1..Len(n) : n[i] = "]"}
        after == Drop(n, CHOOSE i \in open : \A k \in open : i <= k)
        stops == {i \in 1..Len(after) : after[i] = "]"}
        bracketed_host == IF stops = {} THEN after
                          ELSE Take(after, (CHOOSE i \in stops : \A k \in stops : i <= k) - 1)
        raises ==
            IF open = {} /\ close = {} THEN FALSE
            ELSE IF open = {} \/ close = {} THEN TRUE
            ELSE IF StartsWith(bracketed_host, <<"v">>) THEN ~IsIPvFuture(bracketed_host)
            ELSE ~IsIPv6(bracketed_host)
    IN  IF raises THEN Lower(url) ELSE Lower(n)

\* s.replace(p, '') for a non-empty p
RECURSIVE RemoveAll(_, _)
RemoveAll(s, p) ==
    IF s = <<>> THEN <<>>
    ELSE IF StartsWith(s, p) THEN RemoveAll(Drop(s, Len(p)), p)
    ELSE <<s[1]>> \o RemoveAll(Tail(s), p)

social_platforms ==
    {<<"t","w","i","t","t","e","r",".","c","o","m">>, <<"x",".","c","o","m">>, <<"f","a","c","e","b","o","o","k",".","c","o","m">>,
     <<"i","n","s","t","a","g","r","a","m",".","c","o","m">>, <<"y","o","u","t","u","b","e",".","c","o","m">>, <<"t","i","k","t","o","k",".","c","o","m">>}
professional_platforms ==
    {<<"l","i","n","k","e","d","i","n",".","c","o","m">>, <<"c","r","u","n","c","h","b","a","s","e",".","c","o","m">>, <<"a","n","g","e","l","l","i","s","t",".","c","o","m">>,
     <<"p","i","t","c","h","b","o","o","k",".","c","o","m">>}
repository_platforms ==
    {<<"g","i","t","h","u","b",".","c","o","m">>, <<"g","i","t","l","a","b",".","c","o","m">>, <<"b","i","t","b","u","c","k","e","t",".","o","r","g">>}

\* a _categorize_url that looks at the professional platforms first
CategorizeUrlProfessionalFirst(domain0) ==
    LET domain == RemoveAll(domain0, Www)
    IN  IF \E p \in professional_platforms : Contains(domain, p) THEN "professional"
        ELSE IF \E p \in social_platforms : Contains(domain, p) THEN "social_media"
        ELSE IF \E p \in repository_platforms : Contains(domain, p) THEN "repositories"
        ELSE "websites"

\* URLExtractor._categorize_url
CategorizeUrl(domain0) ==
    LET domain == RemoveAll(domain0, Www)
    IN  IF \E p \in social_platforms : Contains(domain, p) THEN "social_media"
        ELSE IF \E p \in professional_platforms : Contains(domain, p) THEN "professional"
        ELSE IF \E p \in repository_platforms : Contains(domain, p) THEN "repositories"
        ELSE "websites"

\* the keys of categorized, in insertion order
Categories == <<"websites", "social_media", "professional", "repositories", "other">>

\* every ordering of a finite set as a sequence
Orderings(S) ==
    {f \in [1..Cardinality(S) -> S] : \A i, j \in 1..Cardinality(S) : i # j => f[i] # f[j]}

\* the URLs of one category, in the order of the list all_urls
InCategory(order, cat) ==
    FilterIdx(order, {i \in 1..Len(order) : CategorizeUrl(GetDomain(order[i])) = cat}, 1)

\* URLExtractor.extract_urls_from_text, given the order in which list(set(...))
\* enumerates the URLs: the non-empty categories, as <<category, urls>> pairs in
\* insertion order
ExtractUrlsFromText(text, order) ==
    IF text = <<>> THEN <<>>
    ELSE LET keep == {c \in 1..Len(Categories) : InCategory(order, Categories[c]) # <<>>}
             cats == FilterIdx(Categories, keep, 1)
         IN  [c \in 1..Len(cats) |-> <<cats[c], InCategory(order, cats[c])>>]

\* for url_list in categorized_urls.values(): all_urls.extend(url_list)
RECURSIVE Flatten(_)
Flatten(cats) == IF cats = <<>> THEN <<>> ELSE cats[1][2] \o Flatten(Tail(cats))

---------------------------------------------------------------------------
(* Dictionaries are records; a key may be absent                           *)

\* d.get(k, default)
Get(d, k, default) == IF k \in DOMAIN d THEN d[k] ELSE default
\* the value of a variable that holds no dictionary yet
NoDict == [unset |-> TRUE]
IsSet(d) == "unset" \notin DOMAIN d

---------------------------------------------------------------------------
(* Extractors (src/extractors/pdf_extractor.py, ppt_extractor.py)          *)

\* what the parsing library finds in the file: pages (slides) of raw text
\* units and the embedded pictures, or an error raised while parsing
MaxPages == 2

PageBlank == <<" ","\n","\f",""," ","">>
PageUrl == <<"A","c","m","e"," ","h","t","t","p","s",":","/","/","a","c","m","e",".","c","o","m","\f">>
LongWord == <<"d","a","t","a"," ">>
LongRepeat == 201
\* a page of more than 1000 characters without any link
PageLong == [i \in 1..(LongRepeat * Len(LongWord)) |-> LongWord[((i - 1) % Len(LongWord)) + 1]]
PageTeam == <<"T","e","a","m","\n"," ","a","n","d"," ","p","l","a","n">>
RawTexts == {PageBlank, PageUrl, PageTeam}

PictureBig == [w |-> 2048, h |-> 1024]
PictureIcon == [w |-> 40, h |-> 400]
PictureLists == {<<>>, <<PictureIcon, PictureBig>>}

SeqsUpTo(S, n) == UNION {[1..k -> S] : k \in 0..n}

ParseError == <<"b","a","d"," ","f","i","l","e">>
\* a parsed PDF: the text of each page
PdfDocs == {[pages |-> ps, pictures |-> IF ps = <<>> THEN <<>> ELSE im] :
                                               ps \in SeqsUpTo(RawTexts, MaxPages),
                                               im \in PictureLists}
\* a parsed presentation: the text shapes of each slide
SlideShapes == {<<PageBlank>>, <<PageUrl, PageLong>>}
PptDocs == {[slides |-> ss, pictures |-> IF ss = <<>> THEN <<>> ELSE im] :
                                                ss \in SeqsUpTo(SlideShapes, MaxPages),
                                                im \in PictureLists}
ParseFailure == [raises |-> ParseError]
Raises(doc) == "raises" \in DOMAIN doc

MinImageSide == 50
\* the pictures both sides of which exceed 50 pixels, in document order
ExtractImages(pictures) ==
    FilterIdx(pictures, {i \in 1..Len(pictures) :
                            pictures[i].w > MinImageSide /\ pictures[i].h > MinImageSide}, 1)

Newline == <<"\n">>
TwoNewlines == <<"\n", "\n">>

\* a page whose extract_text() raises
PageUnreadable == <<"extract_text raises">>

\* the pages whose text is not blank, stripped, with their numbers; a page
\* whose text cannot be extracted is reported and left out (lines 46-54)
PdfTextContent(pages) ==
    LET keep == {i \in 1..Len(pages) : pages[i] # PageUnreadable /\ Strip(pages[i]) # <<>>}
        idx == FilterIdx([i \in 1..Len(pages) |-> i], keep, 1)
    IN  [k \in 1..Len(idx) |-> [page |-> idx[k], content |-> Strip(pages[idx[k]])]]

\* the slides that hold a non-blank shape: the stripped shape texts joined by
\* a newline, with the slide numbers
SlideText(shapes) ==
    LET keep == {i \in 1..Len(shapes) : Strip(shapes[i]) # <<>>}
        texts == FilterIdx([i \in 1..Len(shapes) |-> Strip(shapes[i])], keep, 1)
    IN  texts
PptSlideContent(slides) ==
    LET keep == {i \in 1..Len(slides) : SlideText(slides[i]) # <<>>}
        idx == FilterIdx([i \in 1..Len(slides) |-> i], keep, 1)
    IN  [k \in 1..Len(idx) |->
            [slide |-> idx[k], content |-> Join(SlideText(slides[idx[k]]), Newline)]]

FileSize == 4096

\* an extract_content that gives up on the first page it cannot read
PdfExtractContentStrict(path, doc) ==
    IF Raises(doc) \/ \E i \in 1..Len(doc.pages) : doc.pages[i] = PageUnreadable
    THEN [metadata |-> [file_name |-> Basename(path), file_type |-> "PDF"],
          pages |-> <<>>, full_text |-> <<>>, images |-> <<>>,
          extraction_success |-> FALSE,
          error |-> IF Raises(doc) THEN doc.raises ELSE PageUnreadable]
    ELSE LET text_content == PdfTextContent(doc.pages)
         IN  [metadata |-> [file_name |-> Basename(path), file_type |-> "PDF",
                            num_pages |-> Len(doc.pages), file_size |-> FileSize],
              pages |-> text_content,
              full_text |-> Join([k \in 1..Len(text_content) |-> text_content[k].content],
                                 TwoNewlines),
              images |-> ExtractImages(doc.pictures),
              extraction_success |-> TRUE]

\* PDFExtractor.extract_content (lines 30-78; the two checks of lines 24-28
\* are made by the caller of this operator)
PdfExtractContent(path, doc) ==
    IF Raises(doc)
    THEN [metadata |-> [file_name |-> Basename(path), file_type |-> "PDF"],
          pages |-> <<>>, full_text |-> <<>>, images |-> <<>>,
          extraction_success |-> FALSE, error |-> doc.raises]
    ELSE LET text_content == PdfTextContent(doc.pages)
         IN  [metadata |-> [file_name |-> Basename(path), file_type |-> "PDF",
                            num_pages |-> Len(doc.pages), file_size |-> FileSize],
              pages |-> text_content,
              full_text |-> Join([k \in 1..Len(text_content) |-> text_content[k].content],
                                 TwoNewlines),
              images |-> ExtractImages(doc.pictures),
              extraction_success |-> TRUE]

\* PPTExtractor.extract_content
PptExtractContent(path, doc) ==
    IF Raises(doc)
    THEN [metadata |-> [file_name |-> Basename(path), file_type |-> "PowerPoint"],
          slides |-> <<>>, full_text |-> <<>>, images |-> <<>>,
          extraction_success |-> FALSE, error |-> doc.raises]
    ELSE LET slide_content == PptSlideContent(doc.slides)
         IN  [metadata |-> [file_name |-> Basename(path), file_type |-> "PowerPoint",
                            num_slides |-> Len(doc.slides), file_size |-> FileSize],
              slides |-> slide_content,
              full_text |-> Join([k \in 1..Len(slide_content) |-> slide_content[k].content],
                                 TwoNewlines),
              images |-> ExtractImages(doc.pictures),
              extraction_success |-> TRUE]

---------------------------------------------------------------------------
(* ImageProcessor (src/utils/image_processor.py)                           *)

max_image_size == 1024

\* round_aspect of Image.thumbnail: of floor and ceiling of num/den the one
\* with the smaller key, the floor on a tie, and at least 1
RoundAspect(num, den, Key(_)) ==
    LET lo == num \div den
        hi == IF num % den = 0 THEN lo ELSE lo + 1
    IN  Max(IF Key(hi) < Key(lo) THEN hi ELSE lo, 1)

Abs(n) == IF n < 0 THEN -n ELSE n

\* the size Image.thumbnail((1024, 1024)) gives an image, aspect ratio kept
ThumbnailSize(img) ==
    IF max_image_size >= img.w /\ max_image_size >= img.h THEN img
    ELSE IF img.h >= img.w
         THEN LET KeyX(n) == Abs(img.w * max_image_size - n * img.h)
              IN  [w |-> RoundAspect(max_image_size * img.w, img.h, KeyX),
                   h |-> max_image_size]
         ELSE LET lo == (max_image_size * img.h) \div img.w
                  hi == IF (max_image_size * img.h) % img.w = 0 THEN lo ELSE lo + 1
                  \* |aspect - x/n| compared for n = lo and n = hi, 0 for n = 0
                  hiBetter == IF lo = 0 THEN FALSE
                              ELSE Abs(img.w * hi - max_image_size * img.h) * lo
                                     < Abs(img.w * lo - max_image_size * img.h) * hi
              IN  [w |-> max_image_size, h |-> Max(IF hiBetter THEN hi ELSE lo, 1)]

\* ImageProcessor.resize_image: thumbnail resizes the image object itself
ResizeImage(img) == ThumbnailSize(img)

\* a ranking that puts the later of two images of equal area first
AreaRankLaterFirst(imgs, i) ==
    Cardinality({j \in 1..Len(imgs) :
        \/ imgs[j].w * imgs[j].h > imgs[i].w * imgs[i].h
        \/ imgs[j].w * imgs[j].h = imgs[i].w * imgs[i].h /\ j > i}) + 1

\* the positions of images ordered by area, largest first, equal areas in
\* their original order (list.sort is stable)
AreaRank(imgs, i) ==
    Cardinality({j \in 1..Len(imgs) :
        \/ imgs[j].w * imgs[j].h > imgs[i].w * imgs[i].h
        \/ imgs[j].w * imgs[j].h = imgs[i].w * imgs[i].h /\ j < i}) + 1

\* ImageProcessor.filter_relevant_images: the positions of the images kept, in
\* the order of the returned list (max_images = 0 stands for None)
FilterRelevantImages(imgs, max_images) ==
    IF max_images = 0 \/ Len(imgs) <= max_images THEN [i \in 1..Len(imgs) |-> i]
    ELSE [r \in 1..max_images |-> CHOOSE i \in 1..Len(imgs) : AreaRank(imgs, i) = r]

\* ImageProcessor.prepare_images_for_llm on the images at positions sel: the
\* image objects afterwards (each selected one resized in place)
ImagesAfterPrepare(imgs, sel) ==
    [i \in 1..Len(imgs) |-> IF i \in Range(sel) THEN ResizeImage(imgs[i]) ELSE imgs[i]]

---------------------------------------------------------------------------
(* ImageURLExtractor (src/utils/image_url_extractor.py)                    *)

max_retries == 3
MaxImagesForUrls == 8

\* the message content of a response: a payload, possibly wrapped in a
\* markdown code fence.  The payload is a JSON list (of strings and other
\* values), some other JSON value, or text that is not JSON.
JsonStr(s) == [str |-> TRUE, val |-> s]
JsonNum == [str |-> FALSE]
Contents ==
    { [fence |-> "json", payload |-> [json |-> "list",
            items |-> <<JsonStr(<<" ","a","c","m","e",".","c","o","m">>), JsonStr(<<" "," ">>), JsonNum>>]],
      [fence |-> "none", payload |-> [json |-> "other"]],
      [fence |-> "plain", payload |-> [json |-> "invalid", text |-> <<"s","e","e"," ","h","t","t","p",":","/","/","x",".","i","o","/","a">>]] }

\* the outcomes of one session.post(...) followed by raise_for_status(),
\* response.json() and result['choices'][0]['message']['content']
FailureKinds == {"ssl_error", "connection_error", "timeout", "http_error", "malformed"}
AttemptOutcomes ==
    {[kind |-> k] : k \in FailureKinds} \cup {[kind |-> "ok", content |-> c] : c \in Contents}

\* handlers that leave a KeyError or IndexError of the response unhandled
HandlerRequestErrorsOnly(kind) ==
    IF kind = "ssl_error" THEN "ssl" ELSE IF kind = "malformed" THEN "none" ELSE "exception"

\* the except clause that handles a failure: requests.exceptions.SSLError
\* (line 126) comes first, every other failure is an Exception (line 134)
Handler(kind) == IF kind = "ssl_error" THEN "ssl" ELSE "exception"

\* a loop that tries again after an SSL failure only
RetryAfterSslOnly(kind, n) == kind = "ssl_error" /\ n < max_retries - 1

\* lines 128 and 136: whether another attempt follows a failure in attempt
\* number n (counted from 0)
RetryAfterFailure(kind, n) == n < max_retries - 1

RECURSIVE Pow2(_)
Pow2(n) == IF n = 0 THEN 1 ELSE 2 * Pow2(n - 1)
\* a wait of one second whatever the failure and the attempt
BackoffFixed(kind, n) == 1
\* lines 129 and 137: the seconds slept before the next attempt
BackoffSeconds(kind, n) == IF Handler(kind) = "ssl" THEN Pow2(n) ELSE 1

\* the entry of the log for one request, by the class of its outcome
RequestEvent(kind) ==
    IF kind = "ok" THEN "image_urls_request:ok"
    ELSE IF kind = "ssl_error" THEN "image_urls_request:ssl_error"
    ELSE "image_urls_request:error"

\* lines 109-112: the content handed to json.loads, a leading fence removed
CleanFence(content) == content.payload

\* lines 106-124: the list returned for a response content
ParseUrlsResponse(content) ==
    LET p == CleanFence(content)
    IN  IF p.json = "list"
        THEN LET keep == {i \in 1..Len(p.items) :
                             p.items[i].str /\ Strip(p.items[i].val) # <<>>}
                 kept == FilterIdx(p.items, keep, 1)
             IN  [i \in 1..Len(kept) |-> kept[i].val]
        ELSE IF p.json = "other" THEN <<>>
        ELSE UrlFindAll(p.text)

---------------------------------------------------------------------------
(* WebScraper (src/utils/web_scraper.py)                                   *)

ScrapeDelay == 1
FetchOutcomes == {"success", "request_failed", "parse_failed"}

MainContentLimit == 1000

\* re.sub(r'\s+', ' ', text).strip()
CleanWhitespace(text) ==
    LET RECURSIVE Sub(_, _)
        Sub(lo, hi) ==
            IF lo > hi THEN <<>>
            ELSE IF lo < hi
            THEN Sub(lo, (lo + hi) \div 2) \o Sub(((lo + hi) \div 2) + 1, hi)
            ELSE IF text[lo] \notin Whitespace THEN <<text[lo]>>
            ELSE IF lo = 1 \/ text[lo - 1] \notin Whitespace THEN <<" ">>
            ELSE <<>>
    IN  Strip(Sub(1, Len(text)))

\* WebScraper._extract_main_content on a page whose scripts and styles are
\* gone: soup.main is the text of the first element matching a content-area
\* selector (None when no selector matches), soup.paragraphs the texts of
\* the <p> elements
ExtractMainContent(soup) ==
    LET cut(text) == IF Len(text) > MainContentLimit
                     THEN Take(text, MainContentLimit) \o <<".", ".", ".">>
                     ELSE text
        first == Take(soup.paragraphs, 5)
    IN  IF soup.main # NoneVal THEN cut(CleanWhitespace(soup.main))
        ELSE IF soup.paragraphs # <<>>
        THEN cut(CleanWhitespace(Join([i \in 1..Len(first) |-> Strip(first[i])], <<" ">>)))
        ELSE
             <<"N","o"," ","m","a","i","n"," ","c","o","n","t","e","n","t"," ","f","o","u","n",
               "d">>

\* a scrape_url that reports a page it could not parse as a success
ScrapeUrlParseIgnored(url0, outcome) ==
    LET url == IF StartsWith(url0, <<"h","t","t","p",":","/","/">>)
                  \/ StartsWith(url0, <<"h","t","t","p","s",":","/","/">>)
               THEN url0 ELSE <<"h","t","t","p","s",":","/","/">> \o url0
    IN  IF outcome \in {"success", "parse_failed"} THEN [url |-> url, status |-> "success"]
        ELSE [url |-> url, status |-> "error", error |-> <<"Request failed: ", "e">>]

\* WebScraper.scrape_url
ScrapeUrl(url0, outcome) ==
    LET url == IF StartsWith(url0, HttpPrefix) \/ StartsWith(url0, HttpsPrefix)
               THEN url0 ELSE HttpsPrefix \o url0
    IN  IF outcome = "success" THEN [url |-> url, status |-> "success"]
        ELSE IF outcome = "request_failed"
        THEN [url |-> url, status |-> "error", error |-> <<"Request failed: ", "e">>]
        ELSE [url |-> url, status |-> "error", error |-> <<"Scraping failed: ", "e">>]

\* results[key] = value on a dict kept as a sequence of <<key, value>> pairs in
\* insertion order
DictSet(d, key, value) ==
    IF \E i \in 1..Len(d) : d[i][1] = key
    THEN [i \in 1..Len(d) |-> IF d[i][1] = key THEN <<key, value>> ELSE d[i]]
    ELSE Append(d, <<key, value>>)

---------------------------------------------------------------------------
(* OpenRouterClient (src/ai/openrouter_client.py)                          *)

ModelName == <<"anthropic/claude-3.5-sonnet">>
AnalysisText == <<"#"," ","A","c","m","e",":"," ","i","n","v","e","s","t">>
\* the outcomes of requests.post(...), raise_for_status(), response.json() and
\* the reading of result['choices'][0]['message']['content']; a reply may
\* name the model that served it and the usage, a dict kept as <<key, value>>
\* pairs
AiOutcomes ==
    { [kind |-> "ok", analysis |-> AnalysisText],
      [kind |-> "ok", analysis |-> AnalysisText,
       model |-> <<"anthropic/claude-3.5-sonnet-20240620">>,
       usage |-> << <<"total_tokens", 7>> >>],
      [kind |-> "ok", analysis |-> <<>>],
      [kind |-> "request_exception"], [kind |-> "key_error"], [kind |-> "other_exception"] }

\* a client whose last handler returns a failure without an error string
AiResultWithoutError(outcome, n_images) ==
    IF outcome.kind = "ok"
    THEN [success |-> TRUE, analysis |-> outcome.analysis,
          model_used |-> Get(outcome, "model", ModelName),
          usage |-> Get(outcome, "usage", <<>>),
          images_analyzed |-> n_images]
    ELSE IF outcome.kind = "other_exception"
    THEN [success |-> FALSE, analysis |-> NoneVal]
    ELSE [success |-> FALSE, error |-> <<"API request failed: ", "e">>, analysis |-> NoneVal]

\* the value OpenRouterClient.analyze_pitch_deck returns
AiResult(outcome, n_images) ==
    IF outcome.kind = "ok"
    THEN [success |-> TRUE, analysis |-> outcome.analysis,
          model_used |-> Get(outcome, "model", ModelName),
          usage |-> Get(outcome, "usage", <<>>),
          images_analyzed |-> n_images]
    ELSE IF outcome.kind = "request_exception"
    THEN [success |-> FALSE, error |-> <<"API request failed: ", "e">>, analysis |-> NoneVal]
    ELSE IF outcome.kind = "key_error"
    THEN [success |-> FALSE, error |-> <<"Unexpected API response format: ", "e">>,
          analysis |-> NoneVal]
    ELSE [success |-> FALSE, error |-> <<"Analysis failed: ", "e">>, analysis |-> NoneVal]

---------------------------------------------------------------------------
(* ReportGenerator (src/report_generator.py)                               *)

PreviewLength == 1000
Timestamp == <<"2024-01-01_00-00-00">>

\* str.title(): a character that follows a cased character is lower-cased,
\* every other character is title-cased. The cased characters up to U+00FF
\* are the ones str.lower() or str.upper() changes and the two ordinal
\* indicators; the title case of a character is its upper case, except for
\* U+00DF, whose title case is Ss
Title(s) ==
    LET cased == LowerSet \cup UpperSet \cup {"ª", "º"}
        titlecase(c) == IF c = "ß" THEN <<"S", "s">> ELSE <<UpperChar(c)>>
    IN  Join([i \in 1..Len(s) |-> IF i > 1 /\ s[i - 1] \in cased THEN <<LowerChar(s[i])>>
                                  ELSE titlecase(s[i])], <<>>)

\* ReportGenerator._extract_company_name
ReportCompanyName(pitch_deck_info) ==
    LET filename == Get(Get(pitch_deck_info, "metadata", NoDict), "file_name",
                        <<"U","n","k","n","o","w","n","_","C","o","m","p","a","n","y">>)
    IN  Title(ReplaceChar(ReplaceChar(SplitRoot(filename), "_", " "), "-", " "))

\* a path that is generated whatever the caller asked for
ReportPathGenerated(company_name, out) ==
    <<"analysis_">> \o company_name \o <<"_">> \o Timestamp \o <<".md">>

\* lines 31-34: the path of the report. str.isalnum() holds for the letters
\* and digits of every script: up to U+00FF these are the cased characters,
\* the ASCII digits, the superscript digits and the three fractions, and
\* beyond it the two upper-case letters str.title() can produce
ReportPath(company_name, out) ==
    IF Truthy(out) THEN out
    ELSE LET isalnum == LowerSet \cup UpperSet \cup Digits
                        \cup {"ª", "º", "²", "³", "¹",
                              "¼", "½", "¾", "U+039C", "U+0178"}
             kept == FilterIdx(company_name,
                        {i \in 1..Len(company_name) :
                            company_name[i] \in isalnum \cup {" ", "-", "_"}}, 1)
             safe == ReplaceChar(RStrip(kept), " ", "_")
         IN  <<"analysis_">> \o safe \o <<"_">> \o Timestamp \o <<".md">>

\* whether the body shows the analysis (line 92)
ShowsAnalysis(analysis) ==
    Get(analysis, "success", FALSE) /\ Truthy(Get(analysis, "analysis", NoneVal))

\* a preview cut like the descriptions of the scraped pages, at 200 characters
ContentPreviewShort(pitch_deck_info) ==
    Take(Get(pitch_deck_info, "full_text", <<"No content extracted">>), 200)

\* the preview of the extracted text in the failure section (line 108); the
\* template puts "..." after it
ContentPreview(pitch_deck_info) ==
    Take(Get(pitch_deck_info, "full_text", <<"No content extracted">>), PreviewLength)

\* ReportGenerator._create_report_content: the values the template is filled with
CreateReportContent(analysis, pitch_deck_info, company_name) ==
    LET metadata == Get(pitch_deck_info, "metadata", NoDict)
    IN  [company_name |-> company_name,
         file_type |-> Get(metadata, "file_type", "Unknown"),
         file_name |-> Get(metadata, "file_name", <<"Unknown">>),
         extraction_ok |-> Get(pitch_deck_info, "extraction_success", FALSE),
         body |-> IF ShowsAnalysis(analysis)
                  THEN [section |-> "analysis", text |-> analysis.analysis]
                  ELSE [section |-> "failure",
                        error |-> Get(analysis, "error",
                                      <<"Unknown error occurred during analysis">>),
                        preview |-> ContentPreview(pitch_deck_info)],
         model |-> Get(analysis, "model_used", ModelName),
         timestamp |-> Timestamp]

---------------------------------------------------------------------------
(* Inputs of a run                                                         *)

FilePaths == {<<"a",".","P","D","F">>, <<"b","-","c",".","p","p","t","x">>, <<"a",".","p","p","t">>, <<"a",".","t","x","t">>, <<".","p","d","f">>}
ApiKeys == {NoneVal, <<"k">>}
EnvKeys == {NoneVal, <<"e">>}
OutputPaths == {NoneVal, <<"r",".","m","d">>}

Init ==
    /\ file_path \in FilePaths
    /\ file_exists \in BOOLEAN
    /\ api_key_arg \in ApiKeys
    /\ env_key \in EnvKeys
    /\ output_path \in OutputPaths
    /\ pc = "main"
    /\ extraction_result = NoDict
    /\ images = <<>>
    /\ full_text = <<>>
    /\ url_extractor_input = NoneVal
    /\ categorized_urls = <<>>
    /\ all_urls = <<>>
    /\ attempt = 0
    /\ sleeps = <<>>
    /\ scrape_todo = <<>>
    /\ scraped_data = <<>>
    /\ ai_input = NoDict
    /\ analysis_result = NoDict
    /\ result = NoDict
    /\ files = <<>>
    /\ exit_code = -1
    /\ log = <<>>
    /\ call = NoDict
    /\ returned = NoneVal

---------------------------------------------------------------------------
(* main (main.py)                                                          *)

\* lines 50-53
MainCheckFile ==
    /\ pc = "main"
    /\ IF ~file_exists
       THEN exit_code' = 1 /\ pc' = "exited"
       ELSE exit_code' = exit_code /\ pc' = "init_analyzer"
    /\ UNCHANGED <<call, returned, file_path, file_exists, api_key_arg, env_key, output_path,
                   extraction_result, images, full_text, url_extractor_input,
                   categorized_urls, all_urls, attempt, sleeps, scrape_todo, scraped_data,
                   ai_input, analysis_result, result, files, log>>

\* lines 55-63 and PitchDeckAnalyzer.__init__
MainInitAnalyzer ==
    /\ pc = "init_analyzer"
    /\ IF ConstructorRaises(api_key_arg, env_key)
       THEN exit_code' = 1 /\ pc' = "exited"
       ELSE exit_code' = exit_code /\ pc' = "analyze"
    /\ UNCHANGED <<call, returned, file_path, file_exists, api_key_arg, env_key, output_path,
                   extraction_result, images, full_text, url_extractor_input,
                   categorized_urls, all_urls, attempt, sleeps, scrape_todo, scraped_data,
                   ai_input, analysis_result, result, files, log>>

\* an exit code that does not depend on the result
ExitCodeZero(res) == 0

\* the exit code main ends with for the result of analyze_pitch_deck (lines 71-91)
ExitCodeFor(res) == IF res.success THEN 0 ELSE 1

\* lines 71-91
MainFinish ==
    /\ pc = "main_result"
    /\ exit_code' = ExitCodeFor(result)
    /\ pc' = "exited"
    /\ UNCHANGED <<call, returned, file_path, file_exists, api_key_arg, env_key, output_path,
                   extraction_result, images, full_text, url_extractor_input,
                   categorized_urls, all_urls, attempt, sleeps, scrape_todo, scraped_data,
                   ai_input, analysis_result, result, files, log>>

---------------------------------------------------------------------------
(* PitchDeckAnalyzer.analyze_pitch_deck (src/analyzer.py)                  *)

Failure(error) == [success |-> FALSE, error |-> error, report_path |-> NoneVal]

\* lines 37-60: the file check and the dispatch on the extension
AnalyzeDispatch ==
    /\ pc = "analyze"
    /\ IF ~file_exists
       THEN /\ result' = Failure(<<"File not found: ">> \o file_path)
            /\ pc' = "main_result"
       ELSE IF IsPdf(file_path) THEN result' = result /\ pc' = "extract_pdf"
       ELSE IF IsPpt(file_path) THEN result' = result /\ pc' = "extract_ppt"
       ELSE /\ result' = Failure(<<"Unsupported file type: ">> \o FileExtension(file_path)
                                   \o <<". Supported formats: PDF, PPT, PPTX">>)
            /\ pc' = "main_result"
    /\ UNCHANGED <<call, returned, file_path, file_exists, api_key_arg, env_key, output_path,
                   extraction_result, images, full_text, url_extractor_input,
                   categorized_urls, all_urls, attempt, sleeps, scrape_todo, scraped_data,
                   ai_input, analysis_result, files, exit_code, log>>

\* line 51
ExtractPdf ==
    /\ pc = "extract_pdf"
    /\ \E doc \in PdfDocs \cup {ParseFailure} :
          /\ extraction_result' = PdfExtractContent(file_path, doc)
          /\ images' = extraction_result'.images
    /\ log' = Append(log, "pdf_extract")
    /\ pc' = "check_extraction"
    /\ UNCHANGED <<call, returned, file_path, file_exists, api_key_arg, env_key, output_path, full_text,
                   url_extractor_input, categorized_urls, all_urls, attempt, sleeps,
                   scrape_todo, scraped_data, ai_input, analysis_result, result, files,
                   exit_code>>

\* line 54
ExtractPpt ==
    /\ pc = "extract_ppt"
    /\ \E doc \in PptDocs \cup {ParseFailure} :
          /\ extraction_result' = PptExtractContent(file_path, doc)
          /\ images' = extraction_result'.images
    /\ log' = Append(log, "ppt_extract")
    /\ pc' = "check_extraction"
    /\ UNCHANGED <<call, returned, file_path, file_exists, api_key_arg, env_key, output_path, full_text,
                   url_extractor_input, categorized_urls, all_urls, attempt, sleeps,
                   scrape_todo, scraped_data, ai_input, analysis_result, result, files,
                   exit_code>>

\* line 71: the stripped text of the extraction
StrippedText(extraction) == Strip(Get(extraction, "full_text", <<>>))

\* the stripped text without the substitution for an image-only deck
TextWithoutPlaceholder(extraction) == StrippedText(extraction)

\* lines 81-85: the text analysed, the placeholder for an image-only deck
TextToAnalyze(extraction) ==
    IF StrippedText(extraction) = <<>> /\ Get(extraction, "images", <<>>) # <<>>
    THEN ImageOnlyText
    ELSE StrippedText(extraction)

\* a check that lets a failed extraction through
ExtractionNeverFailed(extraction) == FALSE

\* line 63: the extraction is reported as failed
ExtractionFailed(extraction) == ~Get(extraction, "extraction_success", FALSE)

\* a check that lets an empty deck through
NoContentNever(extraction) == FALSE

\* line 74: neither text nor images
NoContent(extraction) ==
    StrippedText(extraction) = <<>> /\ Get(extraction, "images", <<>>) = <<>>

\* lines 62-87
CheckExtraction ==
    /\ pc = "check_extraction"
    /\ IF ExtractionFailed(extraction_result)
       THEN /\ result' = Failure(<<"Content extraction failed: ">>
                                   \o Get(extraction_result, "error", <<"Unknown error">>))
            /\ full_text' = full_text
            /\ pc' = "main_result"
       ELSE IF NoContent(extraction_result)
       THEN /\ result' = Failure(<<"No text or image content found in the pitch deck. The file may be corrupted or empty.">>)
            /\ full_text' = StrippedText(extraction_result)
            /\ pc' = "main_result"
       ELSE /\ result' = result
            /\ full_text' = TextToAnalyze(extraction_result)
            /\ pc' = "extract_links"
    /\ UNCHANGED <<call, returned, file_path, file_exists, api_key_arg, env_key, output_path,
                   extraction_result, images, url_extractor_input, categorized_urls,
                   all_urls, attempt, sleeps, scrape_todo, scraped_data, ai_input,
                   analysis_result, files, exit_code, log>>

\* a condition that ignores the links found in the text
UsesImageUrlExtractorForImages(imgs, categorized) == imgs # <<>>

\* line 101: whether the links are read from the images
UsesImageUrlExtractor(imgs, categorized) == imgs # <<>> /\ categorized = <<>>

\* lines 89-101
ExtractLinks ==
    /\ pc = "extract_links"
    /\ url_extractor_input' = full_text
    /\ \E order \in Orderings(UrlSet(full_text)) :
          categorized_urls' = ExtractUrlsFromText(full_text, order)
    /\ all_urls' = Flatten(categorized_urls')
    /\ log' = Append(log, "url_extract")
    /\ pc' = IF UsesImageUrlExtractor(images, categorized_urls') THEN "image_urls"
             ELSE "enrich"
    /\ UNCHANGED <<call, returned, file_path, file_exists, api_key_arg, env_key, output_path,
                   extraction_result, images, full_text, attempt, sleeps, scrape_todo,
                   scraped_data, ai_input, analysis_result, result, files, exit_code>>

\* ImageURLExtractor.extract_urls_from_images, lines 42-77: the images are
\* selected and prepared, then the first attempt starts
ImageUrlsPrepare ==
    /\ pc = "image_urls"
    /\ images' = ImagesAfterPrepare(images, FilterRelevantImages(images, MaxImagesForUrls))
    /\ attempt' = 0
    /\ log' = log \o <<"image_urls", "prepare_images">>
    /\ pc' = "image_urls_request"
    /\ UNCHANGED <<call, returned, file_path, file_exists, api_key_arg, env_key, output_path,
                   extraction_result, full_text, url_extractor_input, categorized_urls,
                   all_urls, sleeps, scrape_todo, scraped_data, ai_input, analysis_result,
                   result, files, exit_code>>

\* one pass of the loop of lines 78-140 (line 142 once the range is used up),
\* and lines 104-105 of the analyzer when the call returns; an exception no
\* clause handles reaches line 163 of the analyzer
ImageUrlsRequest ==
    /\ pc = "image_urls_request"
    /\ IF attempt >= max_retries
       THEN /\ pc' = "enrich"
            /\ UNCHANGED <<all_urls, attempt, sleeps, result, log>>
       ELSE \E o \in AttemptOutcomes :
          /\ log' = Append(log, RequestEvent(o.kind))
          /\ IF o.kind = "ok"
             THEN /\ all_urls' = all_urls \o ParseUrlsResponse(o.content)
                  /\ pc' = "enrich"
                  /\ UNCHANGED <<attempt, sleeps, result>>
             ELSE IF Handler(o.kind) = "none"
             THEN /\ result' = Failure(<<"Analysis failed: ", "e">>)
                  /\ pc' = "main_result"
                  /\ UNCHANGED <<all_urls, attempt, sleeps>>
             ELSE IF RetryAfterFailure(o.kind, attempt)
             THEN /\ sleeps' = Append(sleeps, [by |-> "image_urls",
                                               seconds |-> BackoffSeconds(o.kind, attempt)])
                  /\ attempt' = attempt + 1
                  /\ UNCHANGED <<all_urls, pc, result>>
             ELSE /\ pc' = "enrich"
                  /\ UNCHANGED <<all_urls, attempt, sleeps, result>>
    /\ UNCHANGED <<call, returned, file_path, file_exists, api_key_arg, env_key, output_path,
                   extraction_result, images, full_text, url_extractor_input,
                   categorized_urls, scrape_todo, scraped_data, ai_input, analysis_result,
                   files, exit_code>>

\* lines 107-120: scrape_multiple_urls is called when a URL was found
StartEnrichment ==
    /\ pc = "enrich"
    /\ IF all_urls = <<>>
       THEN scrape_todo' = <<>> /\ log' = log /\ pc' = "ai"
       ELSE scrape_todo' = all_urls /\ log' = Append(log, "scrape") /\ pc' = "scrape"
    /\ UNCHANGED <<call, returned, file_path, file_exists, api_key_arg, env_key, output_path,
                   extraction_result, images, full_text, url_extractor_input,
                   categorized_urls, all_urls, attempt, sleeps, scraped_data, ai_input,
                   analysis_result, result, files, exit_code>>

\* one pass of the loop of WebScraper.scrape_multiple_urls (lines 96-105) with
\* the scrape_url it calls; after the last URL lines 121-122 of the analyzer
ScrapeNext ==
    /\ pc = "scrape"
    /\ scrape_todo # <<>>
    /\ \E o \in FetchOutcomes :
          /\ scraped_data' = DictSet(scraped_data, Head(scrape_todo),
                                     ScrapeUrl(Head(scrape_todo), o))
          /\ sleeps' = IF o = "success"
                       THEN Append(sleeps, [by |-> "scraper", seconds |-> ScrapeDelay])
                       ELSE sleeps
    /\ log' = Append(log, "fetch")
    /\ scrape_todo' = Tail(scrape_todo)
    /\ pc' = IF Tail(scrape_todo) = <<>> THEN "ai" ELSE "scrape"
    /\ UNCHANGED <<call, returned, file_path, file_exists, api_key_arg, env_key, output_path,
                   extraction_result, images, full_text, url_extractor_input,
                   categorized_urls, all_urls, attempt, ai_input, analysis_result, result,
                   files, exit_code>>

GenericWords == {<<"p","i","t","c","h">>, <<"d","e","c","k">>,
                 <<"p","r","e","s","e","n","t","a","t","i","o","n">>}

\* PitchDeckAnalyzer._extract_company_name_from_content
ExtractCompanyNameFromContent(content, extraction) ==
    LET lines == Take(Split(content, "\n"), 10)
        named == {i \in 1..Len(lines) :
                     LET line == Strip(lines[i])
                     IN  /\ line # <<>> /\ Len(line) < 50
                         /\ \A g \in GenericWords : ~StartsWith(Lower(line), g)}
        filename == Get(Get(extraction, "metadata", NoDict), "file_name",
                        <<"U","n","k","n","o","w","n"," ","C","o","m","p","a","n","y">>)
    IN  IF named # {}
        THEN Strip(lines[CHOOSE i \in named : \A j \in named : i <= j])
        ELSE Title(ReplaceChar(ReplaceChar(SplitRoot(filename), "_", " "), "-", " "))

\* an analysis client that sends the images without preparing them
AiClientEventsUnprepared(imgs) == <<"ai_request">>

\* OpenRouterClient.analyze_pitch_deck, lines 121-131 and 153: the images, when
\* there are any, are selected and prepared inside the client before its one
\* request
AiClientEvents(imgs) ==
    IF imgs # <<>> THEN <<"prepare_images", "ai_request">> ELSE <<"ai_request">>

\* lines 124-131 and OpenRouterClient.analyze_pitch_deck
AnalyzeWithAi ==
    /\ pc = "ai"
    /\ ai_input' = [content |-> full_text, images |-> Len(images),
                    company_name |-> ExtractCompanyNameFromContent(full_text,
                                                                   extraction_result),
                    urls_info |-> all_urls # <<>>, scraped_content |-> scraped_data # <<>>]
    /\ images' = ImagesAfterPrepare(images, FilterRelevantImages(images, 0))
    /\ \E o \in AiOutcomes : analysis_result' = AiResult(o, Len(images))
    /\ log' = log \o AiClientEvents(images)
    /\ pc' = "report"
    /\ UNCHANGED <<call, returned, file_path, file_exists, api_key_arg, env_key, output_path,
                   extraction_result, full_text, url_extractor_input, categorized_urls,
                   all_urls, attempt, sleeps, scrape_todo, scraped_data, result, files,
                   exit_code>>

\* a success result that leaves out the path of the report
SuccessWithoutPath(report_path, extraction, text, analysis) ==
    [success |-> TRUE,
     report_path |-> NoneVal,
     extraction_info |->
        [file_type |-> extraction.metadata.file_type,
         content_length |-> Len(text),
         pages_slides |-> Get(extraction.metadata, "num_pages",
                              Get(extraction.metadata, "num_slides", NoneVal))],
     analysis_info |-> [model_used |-> Get(analysis, "model_used", NoneVal),
                        analysis_success |-> Get(analysis, "success", FALSE)]]

\* lines 142-154: the result returned after the report was written
Success(report_path, extraction, text, analysis) ==
    [success |-> TRUE,
     report_path |-> report_path,
     extraction_info |->
        [file_type |-> extraction.metadata.file_type,
         content_length |-> Len(text),
         pages_slides |-> Get(extraction.metadata, "num_pages",
                              Get(extraction.metadata, "num_slides", NoneVal))],
     analysis_info |-> [model_used |-> Get(analysis, "model_used", NoneVal),
                        analysis_success |-> Get(analysis, "success", FALSE)]]

\* a write failure reported in the words of a failed analysis
WriteFailureAsAnalysisFailure(path) == Failure(<<"Analysis failed: ", "e">>)

\* lines 156-161 with line 47 of the generator: the result returned when the
\* report could not be written
WriteFailure(path) ==
    Failure(<<"Report generation failed: ", "Failed to write report to ">> \o path
              \o <<": ", "e">>)

\* lines 133-161 and ReportGenerator.generate_report.  open(output_path, 'w')
\* (line 40) either raises, and then there is no file, or creates or empties
\* the file; f.write (line 41) and the close at the end of the with block
\* either go through, and then the file holds the report, or raise, and then
\* the file stays behind holding nothing or a part of the report
GenerateReport ==
    /\ pc = "report"
    /\ LET company_name == ReportCompanyName(extraction_result)
           path == ReportPath(company_name, output_path)
           content == CreateReportContent(analysis_result, extraction_result, company_name)
       IN  \E outcome \in {"written", "open_failed", "write_failed"} :
              IF outcome = "written"
              THEN /\ files' = Append(files, <<path, content>>)
                   /\ result' = Success(path, extraction_result, full_text, analysis_result)
              ELSE IF outcome = "open_failed"
              THEN /\ files' = files
                   /\ result' = WriteFailure(path)
              ELSE /\ \E kept \in {"nothing", "part"} :
                          files' = Append(files, <<path, [incomplete |-> kept]>>)
                   /\ result' = WriteFailure(path)
    /\ log' = Append(log, "render")
    /\ pc' = "main_result"
    /\ UNCHANGED <<call, returned, file_path, file_exists, api_key_arg, env_key, output_path,
                   extraction_result, images, full_text, url_extractor_input,
                   categorized_urls, all_urls, attempt, sleeps, scrape_todo, scraped_data,
                   ai_input, analysis_result, exit_code>>

Next ==
    \/ MainCheckFile
    \/ MainInitAnalyzer
    \/ AnalyzeDispatch
    \/ ExtractPdf
    \/ ExtractPpt
    \/ CheckExtraction
    \/ ExtractLinks
    \/ ImageUrlsPrepare
    \/ ImageUrlsRequest
    \/ StartEnrichment
    \/ ScrapeNext
    \/ AnalyzeWithAi
    \/ GenerateReport
    \/ MainFinish

Spec == Init /\ [][Next]_vars

---------------------------------------------------------------------------
(* Functions called on their own                                           *)
(* URLExtractor, ImageProcessor.filter_relevant_images and                 *)
(* WebScraper.scrape_multiple_urls are public functions; here each is      *)
(* called once with arguments drawn from small sets.                       *)

MaxUrls == 3
MaxImages == 3
MaxCap == 2

UrlAcmeBare == <<"a","c","m","e",".","c","o","m">>
UrlBio == <<"h","t","t","p","s",":","/","/","b",".","i","o">>
ScrapeInputs == {UrlAcmeBare, UrlBio}

CategorizeInputs ==
    {<<"h","t","t","p","s",":","/","/","l","i","n","k","e","d","i","n",".","c","o","m","/","c","o",
  "m","p","a","n","y","/","a","c","m","e">>,
     <<"h","t","t","p","s",":","/","/","g","i","t","h","u","b",".","c","o","m","/","a","c","m","e">>,
     <<"h","t","t","p","s",":","/","/","a","c","m","e",".","c","o","m">>,
     <<"h","t","t","p","s",":","/","/","b","o","x",".","c","o","m">>,
     <<"w","w","w",".","l","i","n","k","e","d","i","n",".","c","o","m","/","i","n","/","a">>,
     <<"h","t","t","p","s",":","/","/","B","l","o","g",".","G","i","t","H","u","b",".","c","o","m",
  "/","x">>,
     <<"h","t","t","p","s",":","/","/","w","w","w",".","x",".","c","o","m","/","a">>,
     <<"h","t","t","p","s",":","/","/","[","a","]","/","g","i","t","h","u","b",".","c","o","m">>,
     <<"h","t","t","p","s",":","/","/","[",":",":","1","]","/","g","i","t","h","u","b",".","c","o",
  "m">>,
     <<"h","t","t","p","s",":","/","/","É",".","c","o","m","/","x">>}

TextBothForms == <<"a","c","m","e",".","c","o","m"," ","h","t","t","p","s",":","/","/","a","c","m","e",".","c",
  "o","m">>
TextTwoSites == <<"h","t","t","p","s",":","/","/","a","c","m","e",".","c","o","m"," ","b",".","i","o">>
TextPath == <<"h","t","t","p","s",":","/","/","a","c","m","e",".","c","o","m","/","a","b","o","u","t">>
TextPlatforms == <<"g","i","t","h","u","b",".","c","o","m","/","a","c","m","e"," ","x",".","c","o","m","/","a",
  "c","m","e">>
\* ... and a host that holds a domain of two platform lists
TextInputs ==
    {<<>>, TextBothForms, TextTwoSites, TextPath, TextPlatforms,
     <<"w","w","w",".","a","c","m","e",".","c","o","m"," ","h","t","t","p","s",":","/","/",
       "w","w","w",".","a","c","m","e",".","c","o","m">>,
     <<"h","t","t","p","s",":","/","/","x",".","c","o","m",".","l","i","n","k","e","d","i","n",".",
  "c","o","m">>,
     <<"h","t","t","p","s",":","/","/","[","a","]","/","g","i","t","h","u","b",".","c","o","m">>}

PictureWide == [w |-> 400, h |-> 40]
PictureInputs == {PictureBig, PictureIcon, PictureWide}

\* WebScraper.scrape_multiple_urls: outcomes[i] is what the fetch of urls[i]
\* meets; results is the dict built so far
RECURSIVE ScrapeMultipleUrls(_, _, _)
ScrapeMultipleUrls(urls, outcomes, results) ==
    IF urls = <<>> THEN results
    ELSE ScrapeMultipleUrls(Tail(urls), Tail(outcomes),
                            DictSet(results, Head(urls), ScrapeUrl(Head(urls), Head(outcomes))))

Calls ==
    {[fn |-> "categorize_url", url |-> u] : u \in CategorizeInputs}
    \cup {[fn |-> "extract_urls_from_text", text |-> x] : x \in TextInputs}
    \cup {[fn |-> "filter_relevant_images", images |-> im, max_images |-> cap] :
             im \in SeqsUpTo(PictureInputs, MaxImages), cap \in 1..MaxCap}
    \cup UNION {{[fn |-> "scrape_multiple_urls", urls |-> us, outcomes |-> os] :
                    us \in [1..n -> ScrapeInputs], os \in [1..n -> FetchOutcomes]} :
                  n \in 0..MaxUrls}
    \cup {[fn |-> "pdf_extract_content", path |-> f, exists |-> e, doc |-> d] :
             f \in {<<"a",".","P","D","F">>, <<"a",".","t","x","t">>}, e \in BOOLEAN,
             d \in {ParseFailure}
                   \cup {[pages |-> ps, pictures |-> im] :
                            ps \in SeqsUpTo({PageUrl, PageBlank, PageUnreadable}, MaxPages),
                            im \in PictureLists}}
    \cup {[fn |-> "ppt_extract_content", path |-> f, exists |-> e, doc |-> d] :
             f \in {<<"b","-","c",".","p","p","t","x">>, <<"a",".","P","D","F">>},
             e \in BOOLEAN, d \in PptDocs \cup {ParseFailure}}
    \cup {[fn |-> "extract_main_content", soup |-> [main |-> m, paragraphs |-> ps]] :
             m \in {NoneVal, <<>>, PageUrl, PageLong, Take(PageLong, MainContentLimit + 1)},
             ps \in {<<>>, <<PageTeam, PageUrl>>, <<PageLong, PageLong>>}}

CallInit ==
    /\ call \in Calls
    /\ returned = NoneVal
    /\ pc = "call"
    /\ file_path = NoneVal /\ file_exists = FALSE
    /\ api_key_arg = NoneVal /\ env_key = NoneVal /\ output_path = NoneVal
    /\ extraction_result = NoDict /\ images = <<>> /\ full_text = <<>>
    /\ url_extractor_input = NoneVal /\ categorized_urls = <<>> /\ all_urls = <<>>
    /\ attempt = 0 /\ sleeps = <<>> /\ scrape_todo = <<>> /\ scraped_data = <<>>
    /\ ai_input = NoDict /\ analysis_result = NoDict /\ result = NoDict
    /\ files = <<>> /\ exit_code = -1 /\ log = <<>>

\* what no call of a single function changes; a call that sends no request
\* and waits for nothing leaves sleeps and log alone as well
CallFrame ==
    UNCHANGED <<call, file_path, file_exists, api_key_arg, env_key, output_path,
                extraction_result, images, full_text, url_extractor_input,
                categorized_urls, all_urls, attempt, scrape_todo, scraped_data,
                ai_input, analysis_result, result, files, exit_code>>

\* category = self._categorize_url(self._get_domain(url))
CallCategorizeUrl ==
    /\ pc = "call" /\ call.fn = "categorize_url"
    /\ returned' = CategorizeUrl(GetDomain(call.url))
    /\ pc' = "returned"
    /\ UNCHANGED <<sleeps, log>>
    /\ CallFrame

\* URLExtractor.extract_urls_from_text(text)
CallExtractUrlsFromText ==
    /\ pc = "call" /\ call.fn = "extract_urls_from_text"
    /\ \E order \in Orderings(UrlSet(call.text)) :
          returned' = ExtractUrlsFromText(call.text, order)
    /\ pc' = "returned"
    /\ UNCHANGED <<sleeps, log>>
    /\ CallFrame

\* ImageProcessor.filter_relevant_images(images, max_images): the images
\* returned, each by its position in the argument
CallFilterRelevantImages ==
    /\ pc = "call" /\ call.fn = "filter_relevant_images"
    /\ returned' = FilterRelevantImages(call.images, call.max_images)
    /\ pc' = "returned"
    /\ UNCHANGED <<sleeps, log>>
    /\ CallFrame

\* WebScraper.scrape_multiple_urls(urls): scrape_url sends one request for
\* every URL of the list (line 45) and waits self.delay after each page it
\* fetched and parsed (line 65)
CallScrapeMultipleUrls ==
    /\ pc = "call" /\ call.fn = "scrape_multiple_urls"
    /\ returned' = ScrapeMultipleUrls(call.urls, call.outcomes, <<>>)
    /\ log' = log \o [i \in 1..Len(call.urls) |-> "fetch"]
    /\ sleeps' = sleeps \o [i \in 1..Cardinality({j \in 1..Len(call.outcomes) :
                                                    call.outcomes[j] = "success"}) |->
                                [by |-> "scraper", seconds |-> ScrapeDelay]]
    /\ pc' = "returned"
    /\ CallFrame

\* WebScraper._extract_main_content(soup)
CallExtractMainContent ==
    /\ pc = "call" /\ call.fn = "extract_main_content"
    /\ returned' = ExtractMainContent(call.soup)
    /\ pc' = "returned"
    /\ UNCHANGED <<sleeps, log>>
    /\ CallFrame

\* PDFExtractor.extract_content(file_path): lines 24-28 raise before the try
\* block is entered
CallPdfExtractContent ==
    /\ pc = "call" /\ call.fn = "pdf_extract_content"
    /\ returned' = IF ~call.exists THEN [raised |-> "FileNotFoundError"]
                   ELSE IF ~EndsWith(Lower(call.path), ExtPdf) THEN [raised |-> "ValueError"]
                   ELSE PdfExtractContent(call.path, call.doc)
    /\ pc' = "returned"
    /\ UNCHANGED <<sleeps, log>>
    /\ CallFrame

\* PPTExtractor.extract_content(file_path)
CallPptExtractContent ==
    /\ pc = "call" /\ call.fn = "ppt_extract_content"
    /\ returned' = IF ~call.exists THEN [raised |-> "FileNotFoundError"]
                   ELSE IF ~(EndsWith(Lower(call.path), ExtPpt)
                             \/ EndsWith(Lower(call.path), ExtPptx))
                   THEN [raised |-> "ValueError"]
                   ELSE PptExtractContent(call.path, call.doc)
    /\ pc' = "returned"
    /\ UNCHANGED <<sleeps, log>>
    /\ CallFrame

CallNext ==
    \/ CallCategorizeUrl
    \/ CallExtractUrlsFromText
    \/ CallFilterRelevantImages
    \/ CallScrapeMultipleUrls
    \/ CallExtractMainContent
    \/ CallPdfExtractContent
    \/ CallPptExtractContent

CallSpec == CallInit /\ [][CallNext]_vars

---------------------------------------------------------------------------
(* Properties                                                              *)

ImageRequestEvents ==
    {"image_urls_request:ok", "image_urls_request:ssl_error", "image_urls_request:error"}
NetworkEvents == ImageRequestEvents \cup {"fetch", "ai_request"}
IsImageRequest(e) == e \in ImageRequestEvents
IsImageSleep(e) == e.by = "image_urls"
\* the requests of the image link extractor so far, by outcome, and its waits
ImageRequests == SelectSeq(log, IsImageRequest)
ImageSleeps == SelectSeq(sleeps, IsImageSleep)
Logged(e) == \E i \in DOMAIN log : log[i] = e
Returned == pc \in {"main_result", "exited"}
AnalysisFailed == IsSet(analysis_result) /\ ~analysis_result.success

\* C1 as stated: a failure the analysis client returns makes main exit with
\* code 1, and code 0 is reserved for runs whose analysis succeeded.
C1_AsStated ==
    (pc = "exited" /\ IsSet(analysis_result)) =>
        /\ ~analysis_result.success => exit_code = 1
        /\ exit_code = 0 => analysis_result.success

\* a file that holds the whole report, and the reports among the files
Complete(f) == "body" \in DOMAIN f[2]
Reports == {i \in DOMAIN files : Complete(files[i])}

\* C2: after a failure of the analysis client the report renderer is still
\* invoked, and a report that is written has a failure section with the
\* client's error string and the first 1000 characters of the extracted text.
C2_FailureReport ==
    (Returned /\ AnalysisFailed) =>
        /\ Logged("render")
        /\ result.success => Reports = {1}
        /\ \A i \in Reports :
              LET body == files[i][2].body
                  text == extraction_result.full_text
              IN  /\ body.section = "failure"
                  /\ body.error = analysis_result.error
                  /\ body.preview = IF Len(text) > 1000 THEN SubSeq(text, 1, 1000) ELSE text

C2_Witness ==
    /\ pc = "exited" /\ AnalysisFailed /\ Reports = {1}
    /\ Len(extraction_result.full_text) > 1000
    /\ Len(files[1][2].body.preview) = 1000
    /\ files[1][2].body.error = <<"API request failed: ", "e">>

\* C3: when the extractor reports a failure the pipeline returns a failure
\* result carrying the extraction error, without any network call and without
\* rendering or writing a report.
C3_ExtractionFailure ==
    (IsSet(extraction_result) /\ ~extraction_result.extraction_success) =>
        /\ pc \in {"check_extraction", "main_result", "exited"}
        /\ \A i \in DOMAIN log : log[i] \notin NetworkEvents \cup {"render", "scrape"}
        /\ files = <<>>
        /\ Returned =>
              /\ ~result.success
              /\ result.error = <<"Content extraction failed: ">> \o extraction_result.error
              /\ result.report_path = NoneVal
        /\ pc = "exited" => exit_code = 1

C3_Witness ==
    /\ pc = "exited" /\ IsSet(extraction_result) /\ ~extraction_result.extraction_success
    /\ IsSet(result) /\ ~result.success /\ exit_code = 1

UnsupportedPaths == {<<"a",".","t","x","t">>, <<".","p","d","f">>}
SupportedPaths == {<<"a",".","P","D","F">>, <<"b","-","c",".","p","p","t","x">>, <<"a",".","p","p","t">>}
UnsupportedError(res) ==
    IsSet(res) /\ ~res.success /\ StartsWith(res.error, <<"Unsupported file type: ">>)

\* C4: a file whose extension, compared without regard to case, is none of
\* .pdf, .ppt and .pptx gets a failure result 'Unsupported file type'; no
\* extractor and no later stage is invoked for it.  A file with one of these
\* extensions in any case is not rejected that way.
C4_UnsupportedType ==
    /\ file_path \in UnsupportedPaths =>
          /\ log = <<>> /\ files = <<>>
          /\ ~IsSet(extraction_result) /\ ~IsSet(analysis_result)
          /\ pc \in {"main", "init_analyzer", "analyze", "main_result", "exited"}
          /\ (Returned /\ file_exists /\ IsSet(result)) => UnsupportedError(result)
          /\ pc = "exited" => exit_code = 1
    /\ file_path \in SupportedPaths => ~UnsupportedError(result)

C4_Witness ==
    /\ pc = "exited" /\ file_path = <<"a",".","t","x","t">> /\ UnsupportedError(result)
    /\ exit_code = 1 /\ log = <<>>

\* C5: with no credential in the argument and none in the environment the
\* run ends with exit code 1 before any extraction or network call.
C5_MissingCredential ==
    (api_key_arg = NoneVal /\ env_key = NoneVal /\ pc \notin {"main", "init_analyzer"}) =>
        /\ pc = "exited" /\ exit_code = 1
        /\ log = <<>> /\ files = <<>>
        /\ ~IsSet(extraction_result) /\ ~IsSet(result)

C5_Witness ==
    /\ pc = "exited" /\ file_exists /\ api_key_arg = NoneVal /\ env_key = NoneVal
    /\ exit_code = 1

ImageOnlyDeck ==
    /\ IsSet(extraction_result) /\ extraction_result.extraction_success
    /\ \A i \in DOMAIN extraction_result.full_text :
          extraction_result.full_text[i] \in Whitespace
    /\ extraction_result.images # <<>>

\* C6: a deck with no text after trimming and at least one image does not
\* fail: the fixed, non-empty placeholder text is what the link extractor and
\* the analysis client receive as the deck text.
C6_ImageOnlyPlaceholder ==
    ImageOnlyDeck =>
        /\ ImageOnlyText # <<>> /\ Strip(ImageOnlyText) = ImageOnlyText
        /\ pc # "check_extraction" => full_text = ImageOnlyText
        /\ url_extractor_input \in {NoneVal, ImageOnlyText}
        /\ IsSet(ai_input) => ai_input.content = ImageOnlyText
        /\ Returned => /\ Logged("url_extract") /\ Logged("ai_request") /\ Logged("render")
                       /\ url_extractor_input = ImageOnlyText
                       /\ IsSet(ai_input)
                       /\ result.success <=> Reports # {}

C6_Witness ==
    /\ ImageOnlyDeck /\ pc = "exited" /\ exit_code = 0
    /\ url_extractor_input = ImageOnlyText /\ ai_input.content = ImageOnlyText

LinksExtracted == Logged("url_extract")
NoLinksButImages ==
    categorized_urls = <<>> /\ IsSet(extraction_result) /\ extraction_result.images # <<>>

\* C7: the image link extractor is invoked if and only if the extraction of
\* links from the text found none and the deck has at least one image.
C7_ImageExtractorCondition ==
    /\ (Logged("image_urls") \/ ImageRequests # <<>> \/ pc \in {"image_urls", "image_urls_request"})
          => (LinksExtracted /\ NoLinksButImages)
    /\ (LinksExtracted /\ pc # "image_urls") => (Logged("image_urls") <=> NoLinksButImages)
    /\ (LinksExtracted /\ pc \notin {"image_urls", "image_urls_request"})
          => (ImageRequests # <<>> <=> NoLinksButImages)

C7_Witness ==
    /\ pc = "ai" /\ Logged("image_urls") /\ ImageRequests # <<>>
    /\ categorized_urls = <<>> /\ images # <<>>

\* C8 as stated: a failure that is not an SSL failure is not retried, so it
\* is the only request made and the empty list is returned at once.
C8_AsStated ==
    \A i \in DOMAIN ImageRequests :
        ImageRequests[i] = "image_urls_request:error" =>
            /\ Len(ImageRequests) = 1
            /\ ImageSleeps = <<>>
            /\ pc # "image_urls_request"

\* C8: a failure that is not an SSL failure is retried too: it is followed
\* by a wait of one second and another request until three requests have
\* been made, and the empty list is returned after the third failure; only a
\* response that was received ends the loop at once.
C8_EveryFailureRetried ==
    LET r == ImageRequests
        s == ImageSleeps
    IN  /\ Len(r) <= 3
        /\ pc = "image_urls_request" => (attempt = Len(r) /\ Len(s) = Len(r) /\ attempt < 3)
        /\ \A i \in DOMAIN r :
              /\ r[i] = "image_urls_request:error" =>
                    IF i < 3
                    THEN /\ i <= Len(s) /\ s[i].seconds = 1
                         /\ (i = Len(r) => pc = "image_urls_request")
                    ELSE pc # "image_urls_request" /\ all_urls = <<>>
              /\ r[i] = "image_urls_request:ok" => (i = Len(r) /\ pc # "image_urls_request")

C8_Witness ==
    /\ ImageRequests = <<"image_urls_request:error", "image_urls_request:error",
                         "image_urls_request:error">>
    /\ Len(ImageSleeps) = 2 /\ ImageSleeps[1].seconds = 1 /\ ImageSleeps[2].seconds = 1
    /\ pc = "enrich" /\ all_urls = <<>>

C9_Bounded ==
    LET r == ImageRequests
        s == ImageSleeps
    IN  /\ Len(r) <= 3 /\ Len(s) <= 2 /\ attempt <= 2
        /\ \A i \in DOMAIN s :
              r[i] = "image_urls_request:ssl_error" =>
                  s[i].seconds = (IF i = 1 THEN 1 ELSE 2)
        /\ (Len(r) = 3 /\ r[3] = "image_urls_request:ssl_error") =>
              (pc # "image_urls_request" /\ all_urls = <<>> /\ Len(s) = 2)
C9_Progress ==
    pc = "image_urls_request" =>
        \/ pc' = "enrich"
        \/ pc' = "image_urls_request" /\ attempt' = attempt + 1 /\ attempt' < 3

\* C9: on SSL failures the request is repeated with waits of 1 and 2 seconds
\* (doubling, starting at one second), at most three requests are made, and
\* the loop ends with the empty list: every pass either leaves the loop or
\* advances the attempt counter, which stays below three.
C9_SslBackoff == []C9_Bounded /\ [][C9_Progress]_vars

C9_Witness ==
    /\ ImageRequests = <<"image_urls_request:ssl_error", "image_urls_request:ssl_error",
                         "image_urls_request:ssl_error">>
    /\ Len(ImageSleeps) = 2 /\ ImageSleeps[1].seconds = 1 /\ ImageSleeps[2].seconds = 2
    /\ pc = "enrich" /\ all_urls = <<>>

\* C10: whatever the outcomes of its requests, the image link extractor
\* returns a list, possibly empty, of non-blank strings (each as the reply
\* gave it) and raises nothing: the pipeline goes on to the enrichment and the
\* analysis.
C10_AlwaysAList ==
    /\ \A i \in DOMAIN all_urls : Strip(all_urls[i]) # <<>>
    /\ (ImageRequests # <<>> /\ pc # "image_urls_request") =>
          /\ pc \in {"enrich", "scrape", "ai", "report", "main_result", "exited"}
          /\ (ImageRequests[Len(ImageRequests)] # "image_urls_request:ok") => all_urls = <<>>
          /\ Returned => Logged("ai_request")

C10_Witness ==
    /\ pc = "exited" /\ Len(ImageRequests) = 2
    /\ ImageRequests[1] = "image_urls_request:error"
    /\ ImageRequests[2] = "image_urls_request:ok"
    /\ all_urls = << <<" ","a","c","m","e",".","c","o","m">> >> /\ Logged("ai_request")

CallReturned(fn) == pc = "returned" /\ Get(call, "fn", "none") = fn
Failed(outcomes) == {i \in DOMAIN outcomes : outcomes[i] # "success"}
WithStatus(results, status) == {j \in DOMAIN results : results[j][2].status = status}
LastAt(urls, u) == CHOOSE i \in DOMAIN urls : urls[i] = u /\ \A j \in DOMAIN urls : urls[j] = u => j <= i
Distinct(urls) == \A i, j \in DOMAIN urls : i # j => urls[i] # urls[j]

\* C11 as stated: for any list of N URLs of which k fail, the mapping
\* scrape_multiple_urls returns has exactly N entries, k of them with status
\* 'error' and a non-empty error string and N-k with status 'success'.
C11_AsStated ==
    CallReturned("scrape_multiple_urls") =>
        LET n == Len(call.urls)
            k == Cardinality(Failed(call.outcomes))
        IN  /\ Len(returned) = n
            /\ Cardinality(WithStatus(returned, "error")) = k
            /\ Cardinality(WithStatus(returned, "success")) = n - k
            /\ \A j \in WithStatus(returned, "error") : returned[j][2].error # <<>>

\* C11: for a list of N pairwise distinct URLs of which k fail, the mapping
\* has exactly N entries, k with status 'error' and a non-empty error string
\* and N-k with status 'success'.  When the list repeats a URL the mapping,
\* keyed by the URL as given, has one entry for each distinct URL, and that
\* entry is the result of the last attempt on it.  Every URL of the list is
\* attempted: one request is sent for each.
C11_OneEntryPerUrl ==
    CallReturned("scrape_multiple_urls") =>
        LET urls == call.urls
            n == Len(urls)
            k == Cardinality(Failed(call.outcomes))
        IN  /\ Len(returned) = Cardinality({urls[i] : i \in DOMAIN urls})
            /\ \A j \in DOMAIN returned :
                  /\ \E i \in DOMAIN urls : urls[i] = returned[j][1]
                  /\ \A j2 \in DOMAIN returned : j2 # j => returned[j2][1] # returned[j][1]
                  /\ LET o == call.outcomes[LastAt(urls, returned[j][1])]
                         e == returned[j][2]
                     IN  IF o = "success" THEN e.status = "success"
                         ELSE e.status = "error" /\ e.error # <<>>
            /\ log = [i \in 1..n |-> "fetch"]
            /\ Distinct(urls) =>
                  /\ Len(returned) = n
                  /\ Cardinality(WithStatus(returned, "error")) = k
                  /\ Cardinality(WithStatus(returned, "success")) = n - k

C11_Witness ==
    /\ CallReturned("scrape_multiple_urls")
    /\ Len(call.urls) = 3 /\ Distinct(SubSeq(call.urls, 1, 2)) /\ call.urls[3] = call.urls[1]
    /\ call.outcomes = <<"success", "request_failed", "parse_failed">>
    /\ Len(returned) = 2
    /\ returned[1][2].status = "error" /\ returned[2][2].status = "error"

ListedPlatforms == social_platforms \cup professional_platforms \cup repository_platforms
\* the host is one of the domains or a subdomain of one
HostOn(host, domains) ==
    \E p \in domains : host = p \/ EndsWith(host, <<".">> \o p)

\* C12 as stated: the category is a function of the host; a host that is
\* neither a listed platform domain nor a subdomain of one is 'websites', a
\* linkedin.com host is 'professional' and a github.com host 'repositories'.
C12_AsStated ==
    CallReturned("categorize_url") =>
        LET host == GetDomain(call.url)
        IN  /\ returned \in {"websites", "social_media", "professional", "repositories"}
            /\ ~HostOn(host, ListedPlatforms) => returned = "websites"
            /\ HostOn(host, {<<"l","i","n","k","e","d","i","n",".","c","o","m">>})
                  => returned = "professional"
            /\ HostOn(host, {<<"g","i","t","h","u","b",".","c","o","m">>})
                  => returned = "repositories"

\* the URLs of all the categories of a result of extract_urls_from_text
UnionOf(categorized) == Flatten(categorized)
Qualified(u) ==
    IF StartsWith(u, <<"h","t","t","p",":","/","/">>)
       \/ StartsWith(u, <<"h","t","t","p","s",":","/","/">>)
    THEN u ELSE <<"h","t","t","p","s",":","/","/">> \o u

\* C13 as stated: a text that gives one link twice, as a bare domain and
\* as the scheme-qualified URL of the same normalized form (the bare domain
\* with https:// in front), yields at most one entry in the union of the
\* categories.
C13_AsStated ==
    CallReturned("extract_urls_from_text") =>
        \A k \in DOMAIN call.text :
            LET bare == SubSeq(call.text, 1, k - 1)
                url == SubSeq(call.text, k + 1, Len(call.text))
            IN  (/\ call.text[k] = " " /\ bare # <<>>
                 /\ \A i \in DOMAIN bare : bare[i] \in DomainChars \cup {"."}
                 /\ url = Qualified(bare))
                    => Len(UnionOf(returned)) <= 1

\* the links of a text in the order extract_urls_from_text comes upon them:
\* the scheme-qualified URLs, then the mentions of each pattern
RECURSIVE PlatformMentions(_, _)
PlatformMentions(text, n) ==
    IF n > Len(Platforms) THEN <<>>
    ELSE LET m == PlatformFindAll(text, Platforms[n])
         IN  [i \in 1..Len(m) |-> Platforms[n].url \o m[i]] \o PlatformMentions(text, n + 1)
Discovered(text) ==
    LET w == WebsiteFindAll(text)
    IN  UrlFindAll(text)
        \o [i \in 1..Len(w) |-> <<"h","t","t","p","s",":","/","/">> \o w[i]]
        \o PlatformMentions(text, 1)
FirstAt(s, u) == CHOOSE i \in DOMAIN s : s[i] = u /\ \A j \in 1..(i - 1) : s[j] # u

\* C14 as stated: the URLs of each category are in the order in which the
\* text first showed them, and the mapping scrape_multiple_urls returns
\* iterates in the order in which its URLs were first given.
C14_AsStated ==
    /\ CallReturned("extract_urls_from_text") =>
          \A c \in DOMAIN returned :
              LET urls == returned[c][2]
                  d == Discovered(call.text)
              IN  \A i, j \in DOMAIN urls : i < j => FirstAt(d, urls[i]) < FirstAt(d, urls[j])
    /\ CallReturned("scrape_multiple_urls") =>
          \A i, j \in DOMAIN returned :
              i < j => FirstAt(call.urls, returned[i][1]) < FirstAt(call.urls, returned[j][1])

Area(img) == img.w * img.h

\* C15: with a cap smaller than the number of images filter_relevant_images
\* returns exactly cap images, none of the images left out is larger in area
\* than one returned, of images of equal area the earlier is preferred, and
\* the result is ordered by decreasing area, equal areas in original order.
C15_LargestFirst ==
    (CallReturned("filter_relevant_images") /\ call.max_images < Len(call.images)) =>
        LET imgs == call.images
            kept == {returned[r] : r \in DOMAIN returned}
        IN  /\ Len(returned) = call.max_images
            /\ Cardinality(kept) = call.max_images
            /\ kept \subseteq DOMAIN imgs
            /\ \A i \in kept : \A j \in DOMAIN imgs \ kept :
                  \/ Area(imgs[i]) > Area(imgs[j])
                  \/ Area(imgs[i]) = Area(imgs[j]) /\ i < j
            /\ \A r, q \in DOMAIN returned : r < q =>
                  \/ Area(imgs[returned[r]]) > Area(imgs[returned[q]])
                  \/ Area(imgs[returned[r]]) = Area(imgs[returned[q]])
                        /\ returned[r] < returned[q]

C15_Witness ==
    /\ CallReturned("filter_relevant_images")
    /\ call.images = <<PictureIcon, PictureBig, PictureWide>> /\ call.max_images = 2
    /\ returned = <<2, 1>>

\* C16 as stated: the source images of the extraction result keep their
\* dimensions whatever is prepared for the LLM.
C16_AsStated ==
    IsSet(extraction_result) => images = extraction_result.images

AiRequests == {i \in DOMAIN log : log[i] = "ai_request"}

\* C17: a call of the analysis client makes exactly one request and no
\* second one, and whatever the request met it returns a result: a success,
\* or success=false with an error string and no analysis; the pipeline goes
\* on to the report with that result.
C17_OneRequestNoRaise ==
    /\ Cardinality(AiRequests) <= 1
    /\ IsSet(analysis_result) <=> AiRequests # {}
    /\ IsSet(analysis_result) =>
          /\ pc \in {"report", "main_result", "exited"}
          /\ ~analysis_result.success =>
                /\ Get(analysis_result, "error", <<>>) # <<>>
                /\ analysis_result.analysis = NoneVal
          /\ Returned => Logged("render")

C17_Witness ==
    /\ pc = "exited" /\ Cardinality(AiRequests) = 1
    /\ IsSet(analysis_result) /\ ~analysis_result.success
    /\ analysis_result.error = <<"Unexpected API response format: ", "e">>

\* the renderer was reached and no file holds the report
WriteFailed == Logged("render") /\ Reports = {}

\* C18: when the report file cannot be written the pipeline returns a failure
\* result whose error starts with 'Report generation failed', which differs
\* from every error of the analysis client, and main exits with code 1.
C18_WriteFailureSurfaces ==
    (Returned /\ WriteFailed) =>
        /\ ~result.success
        /\ StartsWith(result.error, <<"Report generation failed: ">>)
        /\ result.error # Get(analysis_result, "error", <<>>)
        /\ result.error[1] \notin {"Analysis failed: ", "API request failed: ",
                                   "Unexpected API response format: "}
        /\ result.report_path = NoneVal
        /\ pc = "exited" => exit_code = 1

C18_Witness ==
    /\ pc = "exited" /\ WriteFailed /\ exit_code = 1
    /\ IsSet(analysis_result) /\ analysis_result.success

C19_Outcome ==
    pc = "exited" =>
        \/ /\ exit_code = 1
           /\ Reports = {}
           /\ IsSet(result) => (~result.success /\ result.error # <<>>)
        \/ /\ exit_code = 0
           /\ Len(files) = 1 /\ Reports = {1}
           /\ LET body == files[1][2].body
              IN  \/ body.section = "analysis" /\ body.text # <<>>
                  \/ body.section = "failure" /\ body.error # <<>>

\* the stages of a run in the order in which a run passes them
Stage(p) ==
    CASE p = "main" -> 0 [] p = "init_analyzer" -> 1 [] p = "analyze" -> 2
      [] p \in {"extract_pdf", "extract_ppt"} -> 3 [] p = "check_extraction" -> 4
      [] p = "extract_links" -> 5 [] p = "image_urls" -> 6
      [] p = "image_urls_request" -> 7 [] p = "enrich" -> 8 [] p = "scrape" -> 9
      [] p = "ai" -> 10 [] p = "report" -> 11 [] p = "main_result" -> 12
      [] p = "exited" -> 13
\* a run that has not exited is at a position that has a step; the step of
\* a position needs nothing but the position, except in the scraping loop,
\* which needs a URL left to visit
C19_NotStuck ==
    pc # "exited" =>
        /\ pc \in {"main", "init_analyzer", "analyze", "extract_pdf", "extract_ppt",
                   "check_extraction", "extract_links", "image_urls", "image_urls_request",
                   "enrich", "scrape", "ai", "report", "main_result"}
        /\ pc = "scrape" => scrape_todo # <<>>
        /\ pc = "main_result" => IsSet(result)
\* every step moves the run to a later stage, or stays in a loop whose
\* bounded counter it advances
C19_Progress ==
    \/ Stage(pc') > Stage(pc)
    \/ pc' = pc /\ pc = "image_urls_request" /\ attempt' = attempt + 1 /\ attempt' < 3
    \/ pc' = pc /\ pc = "scrape" /\ Len(scrape_todo') < Len(scrape_todo)

\* C19: every run ends, and ends in one of two ways: exit code 1 (with the
\* error of the failure result, or main's own message when the file or the
\* credential is missing), or exit code 0 with one written report whose body
\* holds the analysis or the explanation of the failure.
C19_EndsObservably == []C19_Outcome /\ []C19_NotStuck /\ [][C19_Progress]_vars

C19_Witness ==
    /\ pc = "exited" /\ exit_code = 0 /\ Reports = {1}
    /\ files[1][2].body.section = "failure"

\* C20 as stated: every run leaves exactly one report file.
C20_AsStated ==
    pc = "exited" => Len(files) = 1

\* C20: a run opens at most one file for writing, and opens it once: the
\* report, at the path the caller gave or else at a generated path
\* analysis_<company>_<timestamp>.md.  A run that exits with code 0 leaves
\* exactly one file, which holds the report.  A run that exits with code 1
\* leaves no report: it leaves no file at all, except when the write failed
\* after the file had been opened, and then the file stays at the report
\* path, empty or holding a part of the report.
C20_AtMostOneReport ==
    /\ Len(files) <= 1
    /\ files # <<>> =>
          /\ Logged("render")
          /\ IF output_path # NoneVal /\ output_path # <<>>
             THEN files[1][1] = output_path
             ELSE /\ files[1][1][1] = "analysis_"
                  /\ files[1][1][Len(files[1][1])] = ".md"
                  /\ output_path \notin {files[1][1]}
    /\ pc = "exited" => (Reports = {1} <=> exit_code = 0)
    /\ (pc = "exited" /\ exit_code = 1 /\ files # <<>>) =>
          /\ files[1][2] \in {[incomplete |-> "nothing"], [incomplete |-> "part"]}
          /\ StartsWith(result.error, <<"Report generation failed: ">>)

C20_Witness ==
    /\ pc = "exited" /\ exit_code = 1 /\ Len(files) = 1
    /\ output_path = <<"r",".","m","d">> /\ files[1][1] = <<"r",".","m","d">>
    /\ files[1][2] = [incomplete |-> "nothing"]

\* the lines of a text that are not blank, trimmed
NonEmptyLines(text) ==
    LET lines == Split(text, "\n")
    IN  FilterIdx([i \in 1..Len(lines) |-> Strip(lines[i])],
                  {i \in 1..Len(lines) : Strip(lines[i]) # <<>>}, 1)
IsNameLine(line) ==
    /\ Len(line) < 50
    /\ ~StartsWith(Lower(line), <<"p","i","t","c","h">>)
    /\ ~StartsWith(Lower(line), <<"d","e","c","k">>)
    /\ ~StartsWith(Lower(line), <<"p","r","e","s","e","n","t","a","t","i","o","n">>)
\* the label the fallback chain gives: the first name line among the first
\* ten non-empty lines, else the file name without extension, separators
\* turned into spaces, in title case
LabelOfFallbackChain(text, file_name) ==
    LET lines == Take(NonEmptyLines(text), 10)
        named == {i \in 1..Len(lines) : IsNameLine(lines[i])}
    IN  IF named # {} THEN lines[CHOOSE i \in named : \A j \in named : i <= j]
        ELSE Title(ReplaceChar(ReplaceChar(SplitRoot(file_name), "_", " "), "-", " "))

\* C21 as stated: the company label of the report header, which is also the
\* label in a generated report file name, is the one the fallback chain
\* gives for the extracted text and the file name.
C21_AsStated ==
    \A i \in Reports :
        files[i][2].company_name
            = LabelOfFallbackChain(full_text, extraction_result.metadata.file_name)

\* C22: for every scraped page the main_content of its result has at most
\* 1000 characters, whatever the length of the page text.
C22_AsStated ==
    CallReturned("extract_main_content") => Len(returned) <= MainContentLimit

ExtractorReturned == CallReturned("pdf_extract_content") \/ CallReturned("ppt_extract_content")
Propagated == "raised" \in DOMAIN returned
\* the text segments of an extraction result: its pages or its slides
Segments(r) == IF "pages" \in DOMAIN r THEN r.pages ELSE r.slides
FailedClosed(r) ==
    /\ r.extraction_success = FALSE
    /\ "error" \in DOMAIN r /\ r.error # <<>>
    /\ r.full_text = <<>> /\ Segments(r) = <<>> /\ r.images = <<>>
UnreadablePages(doc) ==
    IF Raises(doc) \/ "pages" \notin DOMAIN doc THEN {}
    ELSE {i \in 1..Len(doc.pages) : doc.pages[i] = PageUnreadable}
PrecheckPassed ==
    /\ call.exists
    /\ IF call.fn = "pdf_extract_content" THEN EndsWith(Lower(call.path), ExtPdf)
       ELSE EndsWith(Lower(call.path), ExtPpt) \/ EndsWith(Lower(call.path), ExtPptx)

\* C23 as stated: every call of extract_content returns without an exception,
\* and any error met while parsing gives the fail-closed result.
C23_AsStated ==
    ExtractorReturned =>
        /\ ~Propagated
        /\ (Raises(call.doc) \/ UnreadablePages(call.doc) # {}) => FailedClosed(returned)

\* C23: an error opening or reading the document gives the fail-closed result
\* and no exception; a PDF page whose text cannot be extracted is skipped and
\* the result stays successful with the text of the other pages; a missing
\* file or a file name of the wrong type raises before parsing starts.
C23_FailsClosedOnDocumentErrors ==
    ExtractorReturned =>
        IF ~PrecheckPassed THEN Propagated
        ELSE /\ ~Propagated
             /\ Raises(call.doc) => FailedClosed(returned) /\ returned.error = call.doc.raises
             /\ ~Raises(call.doc) =>
                   /\ returned.extraction_success = TRUE
                   /\ "error" \notin DOMAIN returned
                   /\ call.fn = "pdf_extract_content" =>
                         {seg.page : seg \in Range(returned.pages)}
                             = {i \in 1..Len(call.doc.pages) :
                                   /\ i \notin UnreadablePages(call.doc)
                                   /\ Strip(call.doc.pages[i]) # <<>>}
C23_Witness ==
    /\ CallReturned("pdf_extract_content")
    /\ PrecheckPassed
    /\ ~Raises(call.doc)
    /\ call.doc.pages = <<PageUnreadable, PageUrl>>
    /\ returned.extraction_success = TRUE
    /\ returned.full_text = Strip(PageUrl)

ImagePreparations == {i \in DOMAIN log : log[i] = "prepare_images"}
\* the position of a logged event in the order Extractor, Link Extractor or
\* Image Link Extractor, Web Enricher, Image Preparer, Analysis Client,
\* Report Renderer
StatedRank(e) ==
    IF e \in {"pdf_extract", "ppt_extract"} THEN 1
    ELSE IF e \in {"url_extract", "image_urls"} \cup ImageRequestEvents THEN 2
    ELSE IF e \in {"scrape", "fetch"} THEN 3
    ELSE IF e = "prepare_images" THEN 4
    ELSE IF e = "ai_request" THEN 5
    ELSE 6
StageEntries ==
    {"pdf_extract", "ppt_extract", "url_extract", "image_urls", "scrape", "ai_request", "render"}
EnteredOnce(e) == Cardinality({i \in DOMAIN log : log[i] = e}) <= 1

\* C24 as stated: the stages run in the order Extractor, Link Extractor (or
\* Image Link Extractor), Web Enricher, Image Preparer, Analysis Client,
\* Report Renderer, and none is entered twice.
C24_AsStated ==
    /\ \A i, j \in DOMAIN log : i < j => StatedRank(log[i]) <= StatedRank(log[j])
    /\ \A e \in StageEntries \cup {"prepare_images"} : EnteredOnce(e)

\* C24: Extractor, Link Extractor, Image Link Extractor (when it is used),
\* Web Enricher, Analysis Client and Report Renderer are entered in this order
\* and at most once each; the Image Preparer is no stage of its own: it runs
\* inside the Image Link Extractor and again inside the Analysis Client, so a
\* run that uses the Image Link Extractor and reaches the analysis prepares
\* the images twice, the first time before the Web Enricher.
C24_StageOrder ==
    /\ \A i, j \in DOMAIN log \ ImagePreparations :
          i < j => /\ StatedRank(log[i]) <= StatedRank(log[j])
                   /\ log[j] = "url_extract" => log[i] \notin {"image_urls"} \cup ImageRequestEvents
    /\ \A e \in StageEntries : EnteredOnce(e)
    /\ \A i \in ImagePreparations :
          \/ i > 1 /\ log[i - 1] = "image_urls"
          \/ i < Len(log) /\ log[i + 1] = "ai_request"
    /\ Cardinality(ImagePreparations)
          = (IF Logged("image_urls") THEN 1 ELSE 0)
            + (IF Logged("ai_request") /\ ai_input.images > 0 THEN 1 ELSE 0)
C24_Witness ==
    /\ Logged("image_urls") /\ Logged("scrape") /\ Logged("render")
    /\ Cardinality(ImagePreparations) = 2
    /\ \E i \in ImagePreparations : \E j \in DOMAIN log : i < j /\ log[j] = "scrape"

\* the record scrape_url returned for the URL fetched in this step
FetchedRecord ==
    scraped_data'[CHOOSE i \in DOMAIN scraped_data' : scraped_data'[i][1] = Head(scrape_todo)][2]
\* the HTTP fetch succeeded: the page was scraped, or it was received and
\* could not be parsed
FetchSucceeded(r) == r.status = "success" \/ r.error[1] = "Scraping failed: "

\* C25 as stated: the politeness delay elapses after every fetch that
\* succeeded, before the next URL is fetched, and after no fetch that failed.
C25_AsStated ==
    [][log' = Append(log, "fetch") =>
          IF FetchSucceeded(FetchedRecord)
          THEN sleeps' = Append(sleeps, [by |-> "scraper", seconds |-> ScrapeDelay])
          ELSE sleeps' = sleeps]_vars

\* the places of URL u in a categorized mapping: <<category, position>>
PlacesOf(categorized, u) ==
    {pl \in UNION {{<<c, i>> : i \in DOMAIN categorized[c][2]} : c \in DOMAIN categorized} :
        categorized[pl[1]][2][pl[2]] = u}
\* the host of u, without 'www.', holds a domain of the list
OnList(u, platforms) == \E p \in platforms : Contains(RemoveAll(GetDomain(u), Www), p)

\* C26: in the mapping extract_urls_from_text returns, every extracted URL
\* appears in exactly one category and once within it, and its category is
\* the first of social, professional, repository whose platform list the
\* host is found on, else website.
C26_OneCategoryByPriority ==
    CallReturned("extract_urls_from_text") =>
        /\ \A c, d \in DOMAIN returned : returned[c][1] = returned[d][1] => c = d
        /\ Range(Flatten(returned)) = UrlSet(call.text)
        /\ \A u \in UrlSet(call.text) :
              /\ Cardinality(PlacesOf(returned, u)) = 1
              /\ \A pl \in PlacesOf(returned, u) :
                    LET category == returned[pl[1]][1]
                    IN  /\ category = "social_media" <=> OnList(u, social_platforms)
                        /\ category = "professional"
                              <=> /\ ~OnList(u, social_platforms)
                                  /\ OnList(u, professional_platforms)
                        /\ category = "repositories"
                              <=> /\ ~OnList(u, social_platforms)
                                  /\ ~OnList(u, professional_platforms)
                                  /\ OnList(u, repository_platforms)
                        /\ category = "websites"
                              <=> ~OnList(u, social_platforms \cup professional_platforms
                                               \cup repository_platforms)
C26_Witness ==
    /\ CallReturned("extract_urls_from_text")
    /\ \E u \in UrlSet(call.text) :
          /\ OnList(u, social_platforms) /\ OnList(u, professional_platforms)
          /\ \E c \in DOMAIN returned :
                returned[c][1] = "social_media" /\ u \in Range(returned[c][2])
    /\ \E c \in DOMAIN returned : returned[c][1] = "professional"

\* C27 as stated: in the mapping scrape_multiple_urls returns, the key of
\* every entry equals the 'url' field of its record, also for a URL that was
\* given without a scheme.
C27_AsStated ==
    CallReturned("scrape_multiple_urls") =>
        \A i \in DOMAIN returned : returned[i][1] = returned[i][2].url

\* the extraction succeeded and found neither text nor images, and the check
\* of the analyzer has been made
EmptyDeckChecked ==
    /\ IsSet(extraction_result) /\ pc # "check_extraction"
    /\ extraction_result.extraction_success
    /\ Strip(extraction_result.full_text) = <<>>
    /\ extraction_result.images = <<>>

\* C28: when a successful extraction yields neither text nor images,
\* analyze_pitch_deck returns a failure result with report_path None, and the
\* run extracts no links, makes no network call and writes no report.
C28_EmptyDeckFails ==
    EmptyDeckChecked =>
        /\ Returned
        /\ result.success = FALSE /\ result.report_path = NoneVal
        /\ Get(result, "error", <<>>) # <<>>
        /\ log \in {<<"pdf_extract">>, <<"ppt_extract">>}
        /\ url_extractor_input = NoneVal
        /\ files = <<>> /\ sleeps = <<>> /\ scraped_data = <<>>
        /\ ~IsSet(analysis_result)
        /\ pc = "exited" => exit_code = 1
C28_Witness ==
    /\ EmptyDeckChecked /\ pc = "exited"
    /\ Get(extraction_result.metadata, "num_pages", 0) = 2
    /\ result.success = FALSE

\* C29 as stated: the result has success=true if and only if the run wrote
\* a report file, and report_path is then the path written; every other result
\* has success=false, report_path None and an error string.
C29_AsStated ==
    IsSet(result) =>
        /\ result.success <=> files # <<>>
        /\ result.success => Len(files) = 1 /\ result.report_path = files[1][1]
        /\ ~result.success =>
              /\ result.report_path = NoneVal
              /\ "error" \in DOMAIN result /\ result.error # <<>>

\* C29: the result has success=true if and only if the run wrote the whole
\* report to its file, and report_path is then the path of that file; every
\* other result has success=false, report_path None and an error string.  A
\* result with success=false does not mean that the run left no file: when
\* the write failed after the file had been opened, the file stays at the
\* report path, empty or incomplete, and the error is that of the renderer.
C29_SuccessIffReportComplete ==
    IsSet(result) =>
        /\ Returned
        /\ result.success <=> Reports # {}
        /\ result.success => Len(files) = 1 /\ result.report_path = files[1][1]
        /\ ~result.success =>
              /\ result.report_path = NoneVal
              /\ "error" \in DOMAIN result /\ result.error # <<>>
              /\ files # <<>> =>
                    /\ Len(files) = 1 /\ ~Complete(files[1])
                    /\ StartsWith(result.error, <<"Report generation failed: ">>)
C29_Witness ==
    /\ pc = "exited" /\ IsSet(result) /\ ~result.success
    /\ Len(files) = 1 /\ files[1][2] = [incomplete |-> "part"]
    /\ result.report_path = NoneVal

\* C30 as stated: the report body is the analysis text exactly when the
\* analysis result has success=true, and the analysis_success flag of the
\* result agrees with the section the written report shows.
C30_AsStated ==
    \A i \in Reports :
        LET body == files[i][2].body
        IN  /\ analysis_result.success
                  <=> (body.section = "analysis" /\ body.text = analysis_result.analysis)
            /\ (IsSet(result) /\ result.success) =>
                  (result.analysis_info.analysis_success <=> body.section = "analysis")

====
